---------------------------- MODULE Spec2Model ----------------------------
(***************************************************************************)
(* A model of the Mercury runtime's type representation layer              *)
(* (runtime/mercury_type_info.h): the build-time tag configuration, the    *)
(* static data area holding type_infos, base_type_infos, type_layouts,     *)
(* layout vectors and typeclass_infos, and the access macros that read     *)
(* them.                                                                   *)
(*                                                                         *)
(* The static data area is a sequence of words.  The word mem[i] lives at  *)
(* byte address i * WordBytes, so address 0 (NULL) is no word of the area. *)
(* A C lvalue such as p[k], p a pointer to words, is modelled by           *)
(* Ref(m, p, k), which carries both the address read and the word found.   *)
(***************************************************************************)
EXTENDS Integers, Sequences, FiniteSets, TLC

(***************************************************************************)
(* Bounds of the model.                                                    *)
(***************************************************************************)
\* Width of a machine word in bits; words are 0 .. 2^WordBits - 1.
WordBits == 16
\* TAGBITS is drawn from 0 .. MaxTagBits; counts above 3 are unsupported.
MaxTagBits == 4
\* Largest instance arity of a typeclass_info.
MaxInstanceArity == 2
\* Largest index handed to the superclass_info / type_info lookups.
MaxIndex == 2
\* Largest number of methods of a base_typeclass_info.
MaxMethods == 2
\* Largest number of constructors of an enumeration.
MaxEnumFunctors == 3
\* Largest arity of a functor described by a simple vector.
MaxFunctorArity == 2
\* Largest number of functors sharing one primary tag.
MaxSharers == 3
\* Largest arity of a type constructor.
MaxTypeArity == 2
\* Largest number of file arguments of mkinit.
MaxFiles == 2

(***************************************************************************)
(* Machine words.                                                          *)
(***************************************************************************)
\* sizeof(Word): the static tables are word aligned.
WordBytes == 8

WordModulus == 2 ^ WordBits

\* The cast (Word) x.
AsWord(x) == x % WordModulus

\* The cast (Integer) w: the same bits read as a signed number.
AsInteger(w) ==
    IF AsWord(w) >= WordModulus \div 2 THEN AsWord(w) - WordModulus ELSE AsWord(w)

\* C's integer division, which truncates towards zero.
CDiv(a, b) == IF a >= 0 THEN a \div b ELSE -((-a) \div b)

\* C's remainder, whose sign is the dividend's.
CRem(a, b) == a - b * CDiv(a, b)

\* 2^n entries, tags, ...
Pow2(n) == 2 ^ n

(***************************************************************************)
(* The static data area.                                                   *)
(***************************************************************************)
\* The address of the word mem[i].
AddrOf(i) == i * WordBytes

\* The index in the data area of the word at address a.
IndexOf(a) == a \div WordBytes

\* The word at address a.  Every read the access macros make of the tables
\* emitted below falls inside the area; a read through a wild pointer finds
\* a word of no table, given here as 0.
Load(m, a) == IF IndexOf(a) \in DOMAIN m THEN m[IndexOf(a)] ELSE 0

\* The lvalue p[k] of a word pointer p: the address it denotes and the word there.
Ref(m, p, k) ==
    [addr |-> p + k * WordBytes, val |-> Load(m, p + k * WordBytes)]

\* The rvalue p[k] of a word pointer p.
WordAt(m, p, k) == Ref(m, p, k).val

(***************************************************************************)
(* Offsets of the fields of a base_type_info and of a type_info.           *)
(***************************************************************************)
OFFSET_FOR_COUNT == 0
OFFSET_FOR_UNIFY_PRED == 1
\* A faulty variant: the index predicate shares the unify predicate's word.
OFFSET_FOR_INDEX_PRED_SharesUnify == OFFSET_FOR_UNIFY_PRED

OFFSET_FOR_INDEX_PRED == 2
OFFSET_FOR_COMPARE_PRED == 3
OFFSET_FOR_BASE_TYPE_LAYOUT == 4
OFFSET_FOR_BASE_TYPE_FUNCTORS == 5
OFFSET_FOR_TYPE_MODULE_NAME == 6
OFFSET_FOR_TYPE_NAME == 7
OFFSET_FOR_ARG_TYPE_INFOS == 1
TYPEINFO_OFFSET_FOR_PRED_ARITY == 1
TYPEINFO_OFFSET_FOR_PRED_ARGS == 2

\* Number of words of a base_type_info.
BaseTypeInfoWords == OFFSET_FOR_TYPE_NAME + 1

(***************************************************************************)
(* Primary tags (runtime/mercury_tags.h, low tag bits).  tb is TAGBITS.    *)
(***************************************************************************)
mktag(t) == t

\* mkword(t, p): the byte address p with the tag t added to it.
mkword(t, p) == AsWord(p + t)

\* tag(w): the low TAGBITS bits of w.
tag(tb, w) == w % Pow2(tb)

\* body(w, t): the word w with its tag t taken off.
body(w, t) == AsWord(w - t)

\* mkbody(i): the integer i shifted clear of the tag bits.
mkbody(tb, i) == AsWord(i * Pow2(tb))

(***************************************************************************)
(* Layout entries for handwritten code.  An entry is the sequence of the   *)
(* words it occupies in a type_layout: one when TAGBITS >= 2, else two.    *)
(***************************************************************************)
make_typelayout(tb, Tag, Value) ==
    IF tb >= 2
    THEN << mkword(mktag(Tag), Value) >>
    ELSE << Tag, Value >>

\* The branches of the #if / #elif chain that defines
\* make_typelayout_for_all_tags: branch i is guarded by TAGBITS == i - 1.
ForAllTagsBranches == 1 .. 4

\* A faulty variant: the last branch is an #else, taken for any other count.
ForAllTagsGuard_LastIsElse(i, tb) == tb = i - 1 \/ (i = 4 /\ tb > 3)

ForAllTagsGuard(i, tb) == tb = i - 1

\* The branches the preprocessor takes: the first whose guard holds.
ForAllTagsTaken(tb) ==
    { i \in ForAllTagsBranches :
        /\ ForAllTagsGuard(i, tb)
        /\ \A j \in ForAllTagsBranches : j < i => ~ForAllTagsGuard(j, tb) }

\* defined(make_typelayout_for_all_tags) after the chain.
ForAllTagsDefined(tb) == ForAllTagsTaken(tb) # {}

\* The #error that follows the chain.
ForAllTagsError(tb) == ~ForAllTagsDefined(tb)

\* A faulty variant: the TAGBITS == 3 branch lists seven entries.
make_typelayout_for_all_tags_SevenEntries(tb, Tag, Value) ==
    LET e == make_typelayout(tb, Tag, Value) IN
    IF 1 \in ForAllTagsTaken(tb) THEN << e >>
    ELSE IF 2 \in ForAllTagsTaken(tb) THEN << e, e >>
    ELSE IF 3 \in ForAllTagsTaken(tb) THEN << e, e, e, e >>
    ELSE IF 4 \in ForAllTagsTaken(tb) THEN << e, e, e, e, e, e, e >>
    ELSE << >>

\* The expansion of make_typelayout_for_all_tags(Tag, Value): the entries
\* it lists, in order.  It has no expansion when no branch was taken.
make_typelayout_for_all_tags(tb, Tag, Value) ==
    LET e == make_typelayout(tb, Tag, Value) IN
    IF 1 \in ForAllTagsTaken(tb) THEN << e >>
    ELSE IF 2 \in ForAllTagsTaken(tb) THEN << e, e >>
    ELSE IF 3 \in ForAllTagsTaken(tb) THEN << e, e, e, e >>
    ELSE IF 4 \in ForAllTagsTaken(tb) THEN << e, e, e, e, e, e, e, e >>
    ELSE << >>

\* The words of a sequence of entries, as the initializer lays them out.
RECURSIVE Flatten(_)
Flatten(entries) ==
    IF entries = << >> THEN << >>
    ELSE Head(entries) \o Flatten(Tail(entries))

(***************************************************************************)
(* Tags and values of type_layout entries.                                 *)
(***************************************************************************)
TYPELAYOUT_CONST_TAG == 0
TYPELAYOUT_COMP_CONST_TAG == 0
TYPELAYOUT_SIMPLE_TAG == 1
TYPELAYOUT_COMPLICATED_TAG == 2
TYPELAYOUT_EQUIV_TAG == 3
TYPELAYOUT_NO_TAG == 3

TYPELAYOUT_STRING_VALUE == 2
TYPELAYOUT_INT_VALUE == 4

LayoutTags ==
    { TYPELAYOUT_CONST_TAG, TYPELAYOUT_SIMPLE_TAG,
      TYPELAYOUT_COMPLICATED_TAG, TYPELAYOUT_EQUIV_TAG }

(***************************************************************************)
(* Type variables and higher-order type constructors.                      *)
(***************************************************************************)
TYPELAYOUT_MAX_VARINT == 1024

\* A faulty variant: the highest type variable number is left out.
TYPEINFO_IS_VARIABLE_Strict(T) == AsWord(T) < TYPELAYOUT_MAX_VARINT

TYPEINFO_IS_VARIABLE(T) == AsWord(T) <= TYPELAYOUT_MAX_VARINT

\* A faulty variant: the largest small integer is left out.
MR_TYPECTOR_IS_HIGHER_ORDER_Strict(T) == AsWord(T) < TYPELAYOUT_MAX_VARINT

MR_TYPECTOR_IS_HIGHER_ORDER(T) == AsWord(T) <= TYPELAYOUT_MAX_VARINT

MR_TYPECTOR_MAKE_PRED(Arity) == AsWord(AsInteger(Arity) * 2)

MR_TYPECTOR_MAKE_FUNC(Arity) == AsWord(AsInteger(Arity) * 2 + 1)

\* A faulty variant: the division rounds up instead of truncating.
MR_TYPECTOR_GET_HOT_ARITY_RoundsUp(T) == CDiv(AsInteger(T) + 1, 2)

MR_TYPECTOR_GET_HOT_ARITY(T) == CDiv(AsInteger(T), 2)

MR_TYPECTOR_GET_HOT_NAME(T) ==
    IF CRem(AsInteger(T), 2) # 0 THEN "func" ELSE "pred"

(***************************************************************************)
(* Offsets into type_layout vectors.                                       *)
(***************************************************************************)
TYPELAYOUT_CONST_FUNCTOR_OFFSET == 2
TYPELAYOUT_ENUM_FUNCTOR_OFFSET == 2
TYPELAYOUT_SIMPLE_FUNCTOR_OFFSET == 1
TYPELAYOUT_SIMPLE_ARITY_OFFSET == 0
TYPELAYOUT_SIMPLE_ARGS_OFFSET == 1

(***************************************************************************)
(* Enum vectors.  A struct is modelled by the word offsets of its fields:  *)
(* the int field is padded to a whole word.                                *)
(***************************************************************************)
MR_TypeLayout_EnumVector ==
    [enum_or_comp_const |-> 0, num_sharers |-> 1, functor1 |-> 2]

MR_TYPELAYOUT_ENUM_VECTOR_IS_ENUM(m, Vector) ==
    WordAt(m, Vector, MR_TypeLayout_EnumVector.enum_or_comp_const)

MR_TYPELAYOUT_ENUM_VECTOR_NUM_FUNCTORS(m, Vector) ==
    WordAt(m, Vector, MR_TypeLayout_EnumVector.num_sharers)

\* A faulty variant: the names are indexed from the num_sharers field.
MR_TYPELAYOUT_ENUM_VECTOR_FUNCTOR_NAME_FromCount(m, Vector, N) ==
    Ref(m, Vector + MR_TypeLayout_EnumVector.num_sharers * WordBytes, N)

MR_TYPELAYOUT_ENUM_VECTOR_FUNCTOR_NAME(m, Vector, N) ==
    Ref(m, Vector + MR_TypeLayout_EnumVector.functor1 * WordBytes, N)

(***************************************************************************)
(* Simple vectors.                                                         *)
(***************************************************************************)
MR_TYPELAYOUT_SIMPLE_VECTOR_OFFSET_FOR_ARITY == 0
MR_TYPELAYOUT_SIMPLE_VECTOR_OFFSET_FOR_ARGS == 1
MR_TYPELAYOUT_SIMPLE_VECTOR_OFFSET_FOR_FUNCTOR_NAME == 1
MR_TYPELAYOUT_SIMPLE_VECTOR_OFFSET_FOR_FUNCTOR_TAG == 2

MR_TYPELAYOUT_SIMPLE_VECTOR_ARITY(m, V) ==
    Ref(m, V, MR_TYPELAYOUT_SIMPLE_VECTOR_OFFSET_FOR_ARITY)

\* A pointer to the first argument word.
MR_TYPELAYOUT_SIMPLE_VECTOR_ARGS(V) ==
    V + MR_TYPELAYOUT_SIMPLE_VECTOR_OFFSET_FOR_ARGS * WordBytes

\* A faulty variant: the name is sought right after the arity word.
MR_TYPELAYOUT_SIMPLE_VECTOR_FUNCTOR_NAME_NoArity(m, V) ==
    Ref(m, V, MR_TYPELAYOUT_SIMPLE_VECTOR_OFFSET_FOR_FUNCTOR_NAME)

MR_TYPELAYOUT_SIMPLE_VECTOR_FUNCTOR_NAME(m, V) ==
    Ref(m, V, MR_TYPELAYOUT_SIMPLE_VECTOR_ARITY(m, V).val
                + MR_TYPELAYOUT_SIMPLE_VECTOR_OFFSET_FOR_FUNCTOR_NAME)

MR_TYPELAYOUT_SIMPLE_VECTOR_TAG(m, V) ==
    Ref(m, V, MR_TYPELAYOUT_SIMPLE_VECTOR_ARITY(m, V).val
                + MR_TYPELAYOUT_SIMPLE_VECTOR_OFFSET_FOR_FUNCTOR_TAG)

(***************************************************************************)
(* Complicated vectors.                                                    *)
(***************************************************************************)
MR_TypeLayout_ComplicatedVector == [num_sharers |-> 0, simple_vector1 |-> 1]

MR_TYPELAYOUT_COMPLICATED_VECTOR_NUM_SHARERS(m, Vector) ==
    Ref(m, Vector, MR_TypeLayout_ComplicatedVector.num_sharers)

\* A faulty variant: the simple vectors are indexed from num_sharers.
MR_TYPELAYOUT_COMPLICATED_VECTOR_GET_SIMPLE_VECTOR_FromCount(m, Vector, N) ==
    Ref(m, Vector + MR_TypeLayout_ComplicatedVector.num_sharers * WordBytes, N)

MR_TYPELAYOUT_COMPLICATED_VECTOR_GET_SIMPLE_VECTOR(m, Vector, N) ==
    Ref(m, Vector + MR_TypeLayout_ComplicatedVector.simple_vector1 * WordBytes, N)

(***************************************************************************)
(* No-tag vectors: the marker, the type of the single argument, the        *)
(* functor's name.  The int field is padded to a whole word.               *)
(***************************************************************************)
MR_TypeLayout_NoTagVector == [is_no_tag |-> 0, arg |-> 1, name |-> 2]

MR_TYPELAYOUT_NO_TAG_VECTOR_IS_NO_TAG(m, Vector) ==
    WordAt(m, Vector, MR_TypeLayout_NoTagVector.is_no_tag)

\* A faulty variant: the arity is read from the vector's first word, as
\* it is for a simple vector.
MR_TYPELAYOUT_NO_TAG_VECTOR_ARITY_FromVector(m, Vector) ==
    WordAt(m, Vector, MR_TYPELAYOUT_SIMPLE_VECTOR_OFFSET_FOR_ARITY)

MR_TYPELAYOUT_NO_TAG_VECTOR_ARITY(m, Vector) == 1

\* A faulty variant: the argument is sought in the vector's first word.
MR_TYPELAYOUT_NO_TAG_VECTOR_ARGS_FromMarker(Vector) ==
    Vector + MR_TypeLayout_NoTagVector.is_no_tag * WordBytes

\* A pointer to the arg field.
MR_TYPELAYOUT_NO_TAG_VECTOR_ARGS(Vector) ==
    Vector + MR_TypeLayout_NoTagVector.arg * WordBytes

MR_TYPELAYOUT_NO_TAG_VECTOR_FUNCTOR_NAME(m, Vector) ==
    WordAt(m, Vector, MR_TypeLayout_NoTagVector.name)

(***************************************************************************)
(* Equivalence vectors: the marker, which is zero, and the type the type   *)
(* is equivalent to.                                                       *)
(***************************************************************************)
MR_TypeLayout_EquivVector == [is_no_tag |-> 0, equiv_type |-> 1]

\* A faulty variant: only the marker 1 is taken for a no-tag vector's.
MR_TYPELAYOUT_EQUIV_IS_EQUIV_OnlyOneIsNoTag(m, Vector) ==
    IF WordAt(m, Vector, MR_TypeLayout_EquivVector.is_no_tag) = 1 THEN 0 ELSE 1

\* C's ! gives 1 for zero and 0 for any other value.
MR_TYPELAYOUT_EQUIV_IS_EQUIV(m, Vector) ==
    IF WordAt(m, Vector, MR_TypeLayout_EquivVector.is_no_tag) = 0 THEN 1 ELSE 0

MR_TYPELAYOUT_EQUIV_TYPE(m, Vector) ==
    WordAt(m, Vector, MR_TypeLayout_EquivVector.equiv_type)

\* The layout tag of each kind of entry.
LayoutKindTags ==
    [const       |-> TYPELAYOUT_CONST_TAG,
     comp_const  |-> TYPELAYOUT_COMP_CONST_TAG,
     simple      |-> TYPELAYOUT_SIMPLE_TAG,
     complicated |-> TYPELAYOUT_COMPLICATED_TAG,
     equiv       |-> TYPELAYOUT_EQUIV_TAG,
     no_tag      |-> TYPELAYOUT_NO_TAG]

\* The kinds of entry that have the layout tag t.
LayoutKindsOfTag(t) == { k \in DOMAIN LayoutKindTags : LayoutKindTags[k] = t }

\* A value of a no-tag type is stored as its argument is: the argument
\* vector of the value held in the cell at address data is that cell.
NoTagArgumentVector(data) == data

\* The functor, arity, argument type and argument of the no-tag value held
\* in the cell at address data, described by Vector.
NoTagExpand(m, Vector, data) ==
    [functor  |-> MR_TYPELAYOUT_NO_TAG_VECTOR_FUNCTOR_NAME(m, Vector),
     arity    |-> MR_TYPELAYOUT_NO_TAG_VECTOR_ARITY(m, Vector),
     argTypes |-> MR_TYPELAYOUT_NO_TAG_VECTOR_ARGS(Vector),
     argType  |-> WordAt(m, MR_TYPELAYOUT_NO_TAG_VECTOR_ARGS(Vector), 0),
     argument |-> WordAt(m, NoTagArgumentVector(data), 0)]

(***************************************************************************)
(* type_infos and base_type_infos.                                         *)
(***************************************************************************)
\* A faulty variant: the first word is followed even when it is zero.
MR_TYPEINFO_GET_BASE_TYPEINFO_AlwaysFollows(m, TypeInfo) ==
    WordAt(m, TypeInfo, 0)

MR_TYPEINFO_GET_BASE_TYPEINFO(m, TypeInfo) ==
    IF WordAt(m, TypeInfo, 0) # 0 THEN WordAt(m, TypeInfo, 0) ELSE TypeInfo

MR_TYPEINFO_GET_HIGHER_ARITY(m, TypeInfo) ==
    AsInteger(WordAt(m, TypeInfo, TYPEINFO_OFFSET_FOR_PRED_ARITY))

MR_BASE_TYPEINFO_GET_TYPELAYOUT(m, BaseTypeInfo) ==
    WordAt(m, BaseTypeInfo, OFFSET_FOR_BASE_TYPE_LAYOUT)

MR_BASE_TYPEINFO_GET_TYPELAYOUT_ENTRY(m, BaseTypeInfo, Tag) ==
    Ref(m, MR_BASE_TYPEINFO_GET_TYPELAYOUT(m, BaseTypeInfo), Tag)

MR_BASE_TYPEINFO_GET_TYPE_ARITY(m, BaseTypeInfo) ==
    WordAt(m, BaseTypeInfo, OFFSET_FOR_COUNT)

MR_BASE_TYPEINFO_GET_TYPEFUNCTORS(m, BaseTypeInfo) ==
    WordAt(m, BaseTypeInfo, OFFSET_FOR_BASE_TYPE_FUNCTORS)

MR_BASE_TYPEINFO_GET_TYPE_NAME(m, BaseTypeInfo) ==
    WordAt(m, BaseTypeInfo, OFFSET_FOR_TYPE_NAME)

MR_BASE_TYPEINFO_GET_TYPE_MODULE_NAME(m, BaseTypeInfo) ==
    WordAt(m, BaseTypeInfo, OFFSET_FOR_TYPE_MODULE_NAME)

\* The lvalue of the word of the base_type_info Base at Offset: the slot
\* a special predicate's code address is kept in.
BaseTypeInfoSlot(m, Base, Offset) == Ref(m, Base, Offset)

(***************************************************************************)
(* typeclass_infos.  Word 0 of a typeclass_info points to its              *)
(* base_typeclass_info, whose word 0 is the instance arity and whose       *)
(* following words are the class methods.                                  *)
(***************************************************************************)
MR_typeclass_info_instance_arity(m, tci) ==
    AsInteger(WordAt(m, WordAt(m, tci, 0), 0))

\* A faulty variant: the method index is offset by the instance arity.
MR_typeclass_info_class_method_AddsArity(m, tci, n) ==
    WordAt(m, WordAt(m, tci, 0), MR_typeclass_info_instance_arity(m, tci) + n)

MR_typeclass_info_class_method(m, tci, n) ==
    WordAt(m, WordAt(m, tci, 0), n)

MR_typeclass_info_arg_typeclass_info(m, tci, n) ==
    Ref(m, tci, n)

MR_typeclass_info_superclass_info(m, tci, n) ==
    Ref(m, tci, MR_typeclass_info_instance_arity(m, tci) + n)

\* A faulty variant: the index is not offset by the instance arity.
MR_typeclass_info_type_info_NoArity(m, tci, n) ==
    Ref(m, tci, n)

MR_typeclass_info_type_info(m, tci, n) ==
    Ref(m, tci, MR_typeclass_info_instance_arity(m, tci) + n)

(***************************************************************************)
(* Words that point outside the modelled data area: code addresses,        *)
(* strings, and structures the model does not look into.                   *)
(***************************************************************************)
ExternAddr(i) == AddrOf(WordModulus \div (2 * WordBytes) + i)

CodeAddr(i) == ExternAddr(i)

StringAddr(i) == ExternAddr(32 + i)

DataAddr(i) == ExternAddr(64 + i)

CodeAddrs == { CodeAddr(1), CodeAddr(2) }

\* Constructor names; StringAddr(i) is the i-th name in alphabetical order.
FunctorNames == { StringAddr(i) : i \in 1 .. MaxEnumFunctors }

\* Arguments of a functor: type variables 1 and 2, or a type_info.
PseudoTypeInfos == { 1, 2, DataAddr(1) }

\* The arities the higher-order packing is exercised on.
HotArities == { 0, 1, 8, 511, 512, 513, TYPELAYOUT_MAX_VARINT }

\* The words that are classified: small integers, the words around
\* TYPELAYOUT_MAX_VARINT, a pointer, the largest word, and a negative
\* Integer.
ClassifiedWords ==
    { 0, 1, TYPELAYOUT_MAX_VARINT - 1, TYPELAYOUT_MAX_VARINT,
      TYPELAYOUT_MAX_VARINT + 1, DataAddr(1), WordModulus - 1, -1 }

\* The first word of a no-tag vector: the marker the compiler sets, or any
\* other word.
NoTagMarkers == { 1, 0, 2, DataAddr(1) }

\* Values of a word-sized argument.
WordValues == { 0, 1, 42, WordModulus - 1 }

\* The sequences over S of length n.
SeqsOf(S, n) == [ 1 .. n -> S ]

\* The sequences over S without repetition, of length n.
InjSeqsOf(S, n) ==
    { q \in SeqsOf(S, n) : \A i, j \in 1 .. n : q[i] = q[j] => i = j }

\* The position of x in the sequence q (0 when absent).
PosIn(q, x) ==
    IF \E i \in 1 .. Len(q) : q[i] = x
    THEN CHOOSE i \in 1 .. Len(q) : q[i] = x
    ELSE 0

\* n copies of w.
Repeat(w, n) == [ i \in 1 .. n |-> w ]

(***************************************************************************)
(* State.                                                                  *)
(*   tagbits  the build's TAGBITS                                          *)
(*   static_code_addresses                                                 *)
(*            whether the build defines MR_STATIC_CODE_ADDRESSES           *)
(*   build    the outcome of preprocessing the header                      *)
(*   mem      the static data area                                         *)
(*   image    what the compiler emitted into mem, and where                *)
(*   res      the operands and results of the last macro evaluation        *)
(***************************************************************************)
VARIABLES tagbits, static_code_addresses, build, mem, image, res

tiVars == << tagbits, static_code_addresses, build, mem, image, res >>

(***************************************************************************)
(* State of mkinit (util/mkinit.c), the generator of the initialization    *)
(* file.  The variables are its globals, the locals of main and of         *)
(* output_sub_init_functions that live across the calls of process_file,   *)
(* and what it has written.                                                *)
(*   mkinit_pc   where main is                                             *)
(*   maxcalls, c_files_contain_extra_inits, files, num_errors              *)
(*               the globals of those names                                *)
(*   purpose     the purpose of the current pass                           *)
(*   filenum, num_bunches, num_calls_in_cur_bunch                          *)
(*               the locals of output_sub_init_functions                   *)
(*   stdout      the functions written so far, the file the -o option      *)
(*               names, whether the final #error directive is written, and  *)
(*               whether the file is removed                                *)
(*   exit_status the status main returned, or exit was called with         *)
(***************************************************************************)
VARIABLES mkinit_pc, maxcalls, c_files_contain_extra_inits, files,
          num_errors, purpose, filenum, num_bunches, num_calls_in_cur_bunch,
          stdout, exit_status

mkVars == << mkinit_pc, maxcalls, c_files_contain_extra_inits, files,
             num_errors, purpose, filenum, num_bunches,
             num_calls_in_cur_bunch, stdout, exit_status >>

(***************************************************************************)
(* State of the trace utilities (runtime/mercury_trace_util.h) at a trace  *)
(* event.                                                                  *)
(*   trace_pc       running, suspended at an event, or resumed             *)
(*   MR_fake_reg    the abstract machine's registers                       *)
(*   stacks         the det stack and the nondet stack with sp and curfr   *)
(*   MR_saved_regs  the copy of the registers the tracer works on          *)
(*   event          the event: its live variables, the locations of the    *)
(*                  procedure's type parameters, the number of registers   *)
(*                  in use, whether the registers are saved, and the       *)
(*                  registers and stacks as they were when it began        *)
(*   trace_res      the arguments and results of the last call             *)
(***************************************************************************)
VARIABLES trace_pc, MR_fake_reg, stacks, MR_saved_regs, event, trace_res

trVars == << trace_pc, MR_fake_reg, stacks, MR_saved_regs, event, trace_res >>

vars == << tiVars, mkVars, trVars >>

\* No program is traced.
TraceIdle ==
    /\ trace_pc = "idle"
    /\ MR_fake_reg = << >>
    /\ stacks = [det |-> << >>, nondet |-> << >>, sp |-> 0, curfr |-> 0]
    /\ MR_saved_regs = << >>
    /\ event = [kind |-> "none"]
    /\ trace_res = [op |-> "none"]

\* mkinit is not run.
MkinitIdle ==
    /\ mkinit_pc = "idle"
    /\ maxcalls = 0
    /\ c_files_contain_extra_inits = FALSE
    /\ files = << >>
    /\ num_errors = 0
    /\ purpose = 0
    /\ filenum = 0
    /\ num_bunches = 0
    /\ num_calls_in_cur_bunch = 0
    /\ stdout = [functions |-> << >>, file |-> "NULL",
                 error_directive |-> FALSE, removed |-> FALSE]
    /\ exit_status = "none"

TiInit ==
    /\ tagbits \in 0 .. MaxTagBits
    /\ static_code_addresses \in BOOLEAN
    /\ build = [status |-> "configured", defined |-> FALSE, taken |-> {}]
    /\ mem = << >>
    /\ image = [kind |-> "none"]
    /\ res = [op |-> "none"]
    /\ MkinitIdle
    /\ TraceIdle

\* No program using the type representation is built.
TiIdle ==
    /\ tagbits = 0
    /\ static_code_addresses = FALSE
    /\ build = [status |-> "idle", defined |-> FALSE, taken |-> {}]
    /\ mem = << >>
    /\ image = [kind |-> "none"]
    /\ res = [op |-> "none"]

\* The header is preprocessed for the configured TAGBITS.
Preprocess ==
    /\ build.status = "configured"
    /\ build' = [status  |-> IF ForAllTagsError(tagbits) THEN "error" ELSE "ok",
                 defined |-> ForAllTagsDefined(tagbits),
                 taken   |-> ForAllTagsTaken(tagbits)]
    /\ UNCHANGED << mkVars, trVars, tagbits, static_code_addresses, mem, image, res >>

\* The data area can be filled: the build succeeded and nothing is emitted yet.
CanEmit == build.status = "ok" /\ image.kind = "none"

\* ENTRY(label): the address of the code labelled label.
ENTRY(PredAddr) == CodeAddr(PredAddr)

\* The labels of the unification, index and comparison predicates of the
\* type a base_type_info describes, and of a predicate of no type.
Labels == [Unify |-> 1, Index |-> 2, Compare |-> 3, Unused |-> 4]

\* A code address in a static initializer: X when code addresses are
\* static, else 0, to be filled in when the module is initialized.
MR_MAYBE_STATIC_CODE(X) == IF static_code_addresses THEN X ELSE 0

\* The words of a base_type_info.
BaseTypeInfoImage(count, layout) ==
    << count,
       MR_MAYBE_STATIC_CODE(ENTRY(Labels.Unify)),
       MR_MAYBE_STATIC_CODE(ENTRY(Labels.Index)),
       MR_MAYBE_STATIC_CODE(ENTRY(Labels.Compare)),
       layout, DataAddr(2), StringAddr(1), StringAddr(2) >>

(***************************************************************************)
(* Higher-order types.  Every pred type shares one base_type_info and      *)
(* every func type another; the arity is kept in the type_info.            *)
(***************************************************************************)
EmitHigherOrderTypeInfo(isFunc, N) ==
    /\ CanEmit
    /\ mem' = BaseTypeInfoImage(0, DataAddr(3)) \o << AddrOf(1), N >>
    /\ image' = [kind     |-> "higher_order",
                 base     |-> AddrOf(1),
                 typeinfo |-> AddrOf(1 + BaseTypeInfoWords),
                 isFunc   |-> isFunc,
                 arity    |-> N]
    /\ UNCHANGED << mkVars, trVars, tagbits, static_code_addresses, build, res >>

\* The type constructor of a higher-order type_info is packed into a word.
PackHigherOrder ==
    /\ image.kind = "higher_order"
    /\ LET N == MR_TYPEINFO_GET_HIGHER_ARITY(mem, image.typeinfo)
       IN res' = [op     |-> "hot_packed",
                  isFunc |-> image.isFunc,
                  arity  |-> N,
                  ctor   |-> IF image.isFunc THEN MR_TYPECTOR_MAKE_FUNC(N)
                                             ELSE MR_TYPECTOR_MAKE_PRED(N),
                  isHigherOrder |->
                     MR_TYPECTOR_IS_HIGHER_ORDER(
                        IF image.isFunc THEN MR_TYPECTOR_MAKE_FUNC(N)
                                        ELSE MR_TYPECTOR_MAKE_PRED(N))]
    /\ UNCHANGED << mkVars, trVars, tagbits, static_code_addresses, build, mem, image >>

\* The packed word is taken apart again.
\* A word is stored where a pseudo type_info or a type constructor is
\* expected.
EmitWord(T) ==
    /\ CanEmit
    /\ mem' = << AsWord(T) >>
    /\ image' = [kind |-> "word", at |-> AddrOf(1), word |-> AsWord(T)]
    /\ UNCHANGED << mkVars, trVars, tagbits, static_code_addresses, build, res >>

\* The stored word is tested as a pseudo type_info and as a type
\* constructor.
ClassifyWord ==
    /\ image.kind = "word"
    /\ LET T == WordAt(mem, image.at, 0)
       IN res' = [op            |-> "classified",
                  word          |-> T,
                  isVariable    |-> TYPEINFO_IS_VARIABLE(T),
                  isHigherOrder |-> MR_TYPECTOR_IS_HIGHER_ORDER(T)]
    /\ UNCHANGED << mkVars, trVars, tagbits, static_code_addresses, build, mem, image >>

DecodeHigherOrder ==
    /\ res.op = "hot_packed"
    /\ res' = [op       |-> "hot_decoded",
               isFunc   |-> res.isFunc,
               arity    |-> res.arity,
               ctor     |-> res.ctor,
               hotArity |-> MR_TYPECTOR_GET_HOT_ARITY(res.ctor),
               hotName  |-> MR_TYPECTOR_GET_HOT_NAME(res.ctor)]
    /\ UNCHANGED << mkVars, trVars, tagbits, static_code_addresses, build, mem, image >>

(***************************************************************************)
(* typeclass_infos: two instances, each with its own base_typeclass_info.  *)
(***************************************************************************)
\* A typeclass_info: the base pointer, then one word per constraint of the
\* instance, per superclass and per type, each word pointing elsewhere.
TypeclassInfoImage(base, arity, first) ==
    << base >> \o [ k \in 1 .. arity + MaxIndex |-> DataAddr(first + k) ]

EmitTypeclassInfos(A1, A2, meths1, meths2) ==
    /\ CanEmit
    /\ LET base1 == << A1 >> \o meths1
           base2 == << A2 >> \o meths2
           b1 == AddrOf(1)
           b2 == AddrOf(1 + Len(base1))
           t1 == AddrOf(1 + Len(base1) + Len(base2))
           tci1 == TypeclassInfoImage(b1, A1, 0)
           t2 == t1 + AddrOf(Len(tci1))
           tci2 == TypeclassInfoImage(b2, A2, Len(tci1))
       IN /\ mem' = base1 \o base2 \o tci1 \o tci2
          /\ image' = [kind    |-> "typeclass",
                       tci     |-> << t1, t2 >>,
                       arity   |-> << A1, A2 >>,
                       methods |-> << meths1, meths2 >>]
    /\ UNCHANGED << mkVars, trVars, tagbits, static_code_addresses, build, res >>

LookupSuperclass(t, K) ==
    /\ image.kind = "typeclass"
    /\ res' = [op         |-> "tci_lookup",
               tci        |-> image.tci[t],
               arity      |-> image.arity[t],
               index      |-> K,
               superclass |-> MR_typeclass_info_superclass_info(mem, image.tci[t], K),
               type_info  |-> MR_typeclass_info_type_info(mem, image.tci[t], K)]
    /\ UNCHANGED << mkVars, trVars, tagbits, static_code_addresses, build, mem, image >>

LookupMethod(n) ==
    /\ image.kind = "typeclass"
    /\ n <= Len(image.methods[1])
    /\ res' = [op      |-> "class_method",
               index   |-> n,
               method1 |-> MR_typeclass_info_class_method(mem, image.tci[1], n),
               method2 |-> MR_typeclass_info_class_method(mem, image.tci[2], n)]
    /\ UNCHANGED << mkVars, trVars, tagbits, static_code_addresses, build, mem, image >>

(***************************************************************************)
(* type_infos: the base_type_info of a zero-arity type (its own            *)
(* type_info), the base_type_info of a type of arity count, and, when      *)
(* count > 0, a type_info for that type applied to arguments.              *)
(***************************************************************************)
EmitTypeInfos(count) ==
    /\ CanEmit
    /\ LET b0 == AddrOf(1)
           b  == AddrOf(1 + BaseTypeInfoWords)
           t  == AddrOf(1 + 2 * BaseTypeInfoWords)
           ti == IF count = 0 THEN << >> ELSE << b >> \o Repeat(b0, count)
       IN /\ mem' = BaseTypeInfoImage(0, DataAddr(3))
                      \o BaseTypeInfoImage(count, DataAddr(4)) \o ti
          /\ image' = [kind      |-> "typeinfo",
                       typeinfos |-> IF count = 0 THEN { b0, b } ELSE { b0, t },
                       base      |-> IF count = 0
                                     THEN (b0 :> b0) @@ (b :> b)
                                     ELSE (b0 :> b0) @@ (t :> b),
                       count     |-> count]
    /\ UNCHANGED << mkVars, trVars, tagbits, static_code_addresses, build, res >>

LookupBaseTypeInfo(T) ==
    /\ image.kind = "typeinfo"
    /\ T \in image.typeinfos
    /\ res' = [op        |-> "base_typeinfo",
               typeinfo  |-> T,
               firstWord |-> WordAt(mem, T, 0),
               base      |-> MR_TYPEINFO_GET_BASE_TYPEINFO(mem, T),
               baseOfBase |->
                  MR_TYPEINFO_GET_BASE_TYPEINFO(mem,
                      MR_TYPEINFO_GET_BASE_TYPEINFO(mem, T))]
    /\ UNCHANGED << mkVars, trVars, tagbits, static_code_addresses, build, mem, image >>

(***************************************************************************)
(* Initialization of base_type_infos when the module is initialized.       *)
(* Each macro gives the data area as it leaves it.                         *)
(***************************************************************************)
\* A faulty variant: the word before the one at Offset is written.
MR_INIT_CODE_ADDR_OffByOne(m, Base, PredAddr, Offset) ==
    [m EXCEPT ![IndexOf(Base) + Offset - 1] = AsWord(ENTRY(PredAddr))]

MR_INIT_CODE_ADDR(m, Base, PredAddr, Offset) ==
    [m EXCEPT ![IndexOf(Base) + Offset] = AsWord(ENTRY(PredAddr))]

\* The label is made of the predicate's name and the type's.
MR_SPECIAL_PRED_INIT(m, Base, Offset, Pred) ==
    MR_INIT_CODE_ADDR(m, Base, Labels[Pred], Offset)

MR_INIT_BUILTIN_BASE_TYPE_INFO(m, B) ==
    IF static_code_addresses THEN m
    ELSE LET m1 == MR_INIT_CODE_ADDR(m, B, Labels.Unify, OFFSET_FOR_UNIFY_PRED)
             m2 == MR_INIT_CODE_ADDR(m1, B, Labels.Index, OFFSET_FOR_INDEX_PRED)
         IN MR_INIT_CODE_ADDR(m2, B, Labels.Compare, OFFSET_FOR_COMPARE_PRED)

MR_INIT_BASE_TYPE_INFO_WITH_PRED(m, B, P) ==
    IF static_code_addresses THEN m
    ELSE LET m1 == MR_INIT_CODE_ADDR(m, B, P, OFFSET_FOR_UNIFY_PRED)
             m2 == MR_INIT_CODE_ADDR(m1, B, P, OFFSET_FOR_INDEX_PRED)
         IN MR_INIT_CODE_ADDR(m2, B, P, OFFSET_FOR_COMPARE_PRED)

MR_INIT_BASE_TYPE_INFO(m, B) ==
    IF static_code_addresses THEN m
    ELSE LET m1 == MR_SPECIAL_PRED_INIT(m, B, OFFSET_FOR_UNIFY_PRED, "Unify")
             m2 == MR_SPECIAL_PRED_INIT(m1, B, OFFSET_FOR_INDEX_PRED, "Index")
         IN MR_SPECIAL_PRED_INIT(m2, B, OFFSET_FOR_COMPARE_PRED, "Compare")

\* The names of the three initialization macros.
InitMacros == { "MR_INIT_BUILTIN_BASE_TYPE_INFO", "MR_INIT_BASE_TYPE_INFO",
                "MR_INIT_BASE_TYPE_INFO_WITH_PRED" }

\* The base_type_infos of the data area.
BaseTypeInfos == { image.base[T] : T \in image.typeinfos }

\* A module's initialization code runs one of the macros on the
\* base_type_info B; P is the predicate MR_INIT_BASE_TYPE_INFO_WITH_PRED
\* is given.
InitBaseTypeInfo(macro, B, P) ==
    /\ image.kind = "typeinfo"
    /\ B \in BaseTypeInfos
    /\ mem' = CASE macro = "MR_INIT_BUILTIN_BASE_TYPE_INFO" ->
                    MR_INIT_BUILTIN_BASE_TYPE_INFO(mem, B)
                [] macro = "MR_INIT_BASE_TYPE_INFO" ->
                    MR_INIT_BASE_TYPE_INFO(mem, B)
                [] macro = "MR_INIT_BASE_TYPE_INFO_WITH_PRED" ->
                    MR_INIT_BASE_TYPE_INFO_WITH_PRED(mem, B, P)
    /\ res' = [op    |-> "init",
               macro |-> macro,
               base  |-> B,
               pred  |-> IF macro = "MR_INIT_BASE_TYPE_INFO_WITH_PRED"
                         THEN P ELSE 0]
    /\ UNCHANGED << mkVars, trVars, tagbits, static_code_addresses, build, image >>

\* The special predicates of the type of the type_info T are looked up in
\* its base_type_info, and the other fields of the base_type_info are read.
DispatchSpecialPreds(T) ==
    /\ image.kind = "typeinfo"
    /\ T \in image.typeinfos
    /\ LET B == MR_TYPEINFO_GET_BASE_TYPEINFO(mem, T)
       IN res' = [op          |-> "dispatch",
                  typeinfo    |-> T,
                  base        |-> B,
                  unify       |-> BaseTypeInfoSlot(mem, B, OFFSET_FOR_UNIFY_PRED),
                  index       |-> BaseTypeInfoSlot(mem, B, OFFSET_FOR_INDEX_PRED),
                  compare     |-> BaseTypeInfoSlot(mem, B, OFFSET_FOR_COMPARE_PRED),
                  arity       |-> MR_BASE_TYPEINFO_GET_TYPE_ARITY(mem, B),
                  layout      |-> MR_BASE_TYPEINFO_GET_TYPELAYOUT(mem, B),
                  functors    |-> MR_BASE_TYPEINFO_GET_TYPEFUNCTORS(mem, B),
                  module_name |-> MR_BASE_TYPEINFO_GET_TYPE_MODULE_NAME(mem, B),
                  type_name   |-> MR_BASE_TYPEINFO_GET_TYPE_NAME(mem, B)]
    /\ UNCHANGED << mkVars, trVars, tagbits, static_code_addresses, build, mem, image >>

(***************************************************************************)
(* type_layouts: a base_type_info followed by its layout, one entry per    *)
(* primary tag value.                                                      *)
(***************************************************************************)
\* The values handwritten code gives an entry: a shifted constant, or the
\* address of a vector.
LayoutValues(tb) == { mkbody(tb, TYPELAYOUT_INT_VALUE), DataAddr(5) }

PrimaryTags(tb) == 0 .. Pow2(tb) - 1

LayoutImage(entries) ==
    BaseTypeInfoImage(0, AddrOf(1 + BaseTypeInfoWords))
        \o Flatten(entries) \o Repeat(0, 2 * Len(entries))

\* The layout of a builtin type: the same entry for every primary tag.
EmitBuiltinLayout(Tag, Value) ==
    /\ CanEmit
    /\ LET entries == make_typelayout_for_all_tags(tagbits, Tag, Value)
       IN /\ mem' = LayoutImage(entries)
          /\ image' = [kind    |-> "layout",
                       base    |-> AddrOf(1),
                       forAll  |-> TRUE,
                       encoded |-> [ p \in PrimaryTags(tagbits) |->
                                       [Tag |-> Tag, Value |-> Value] ],
                       entries |-> entries]
    /\ UNCHANGED << mkVars, trVars, tagbits, static_code_addresses, build, res >>

\* The layout of a user type: entry A for the primary tags below split,
\* entry B from split on.
EmitUserLayout(TagA, ValueA, TagB, ValueB, split) ==
    /\ CanEmit
    /\ LET enc == [ p \in PrimaryTags(tagbits) |->
                      IF p < split THEN [Tag |-> TagA, Value |-> ValueA]
                                   ELSE [Tag |-> TagB, Value |-> ValueB] ]
           entries == [ i \in 1 .. Pow2(tagbits) |->
                          make_typelayout(tagbits, enc[i - 1].Tag, enc[i - 1].Value) ]
       IN /\ mem' = LayoutImage(entries)
          /\ image' = [kind    |-> "layout",
                       base    |-> AddrOf(1),
                       forAll  |-> FALSE,
                       encoded |-> enc,
                       entries |-> entries]
    /\ UNCHANGED << mkVars, trVars, tagbits, static_code_addresses, build, res >>

\* The layout tag of the entry found at lvalue e: the tag of the word when
\* TAGBITS >= 2, else the first of the entry's two words.
LayoutEntryTag(tb, m, e) ==
    IF tb >= 2 THEN tag(tb, e.val) ELSE e.val

\* The value of the entry found at lvalue e: the body of the word when
\* TAGBITS >= 2, else the second of the entry's two words.
LayoutEntryValue(tb, m, e) ==
    IF tb >= 2 THEN body(e.val, tag(tb, e.val)) ELSE Ref(m, e.addr, 1).val

\* A value with primary tag p is decoded through the layout entry for p.
DecodeLayoutEntry(p) ==
    /\ image.kind = "layout"
    /\ p \in PrimaryTags(tagbits)
    /\ LET e == MR_BASE_TYPEINFO_GET_TYPELAYOUT_ENTRY(mem, image.base, p)
       IN res' = [op    |-> "layout_decode",
                  ptag  |-> p,
                  entry |-> e,
                  tag   |-> LayoutEntryTag(tagbits, mem, e),
                  value |-> LayoutEntryValue(tagbits, mem, e)]
    /\ UNCHANGED << mkVars, trVars, tagbits, static_code_addresses, build, mem, image >>

(***************************************************************************)
(* Enum vectors: the marker, the number of functors, then their names in   *)
(* the order of the type's declaration.                                    *)
(***************************************************************************)
EmitEnumVector(decl) ==
    /\ CanEmit
    /\ mem' = << 1, Len(decl) >> \o decl
    /\ image' = [kind |-> "enum", vector |-> AddrOf(1), decl |-> decl]
    /\ UNCHANGED << mkVars, trVars, tagbits, static_code_addresses, build, res >>

\* The names of the enumeration values i and j are looked up.
LookupEnumFunctors(i, j) ==
    /\ image.kind = "enum"
    /\ i < MR_TYPELAYOUT_ENUM_VECTOR_NUM_FUNCTORS(mem, image.vector)
    /\ j < MR_TYPELAYOUT_ENUM_VECTOR_NUM_FUNCTORS(mem, image.vector)
    /\ res' = [op    |-> "enum_names",
               i     |-> i,
               j     |-> j,
               namei |-> MR_TYPELAYOUT_ENUM_VECTOR_FUNCTOR_NAME(mem, image.vector, i),
               namej |-> MR_TYPELAYOUT_ENUM_VECTOR_FUNCTOR_NAME(mem, image.vector, j)]
    /\ UNCHANGED << mkVars, trVars, tagbits, static_code_addresses, build, mem, image >>

(***************************************************************************)
(* Simple vectors: the arity, the arguments, the functor's name, its tag.  *)
(***************************************************************************)
SimpleVectorImage(args, name, stag) == << Len(args) >> \o args \o << name, stag >>

EmitSimpleVector(args, name, stag) ==
    /\ CanEmit
    /\ mem' = SimpleVectorImage(args, name, stag)
    /\ image' = [kind   |-> "simple",
                 vector |-> AddrOf(1),
                 args   |-> args,
                 name   |-> name,
                 stag   |-> stag]
    /\ UNCHANGED << mkVars, trVars, tagbits, static_code_addresses, build, res >>

LookupSimpleVector ==
    /\ image.kind = "simple"
    /\ res' = [op    |-> "simple_vector",
               arity |-> MR_TYPELAYOUT_SIMPLE_VECTOR_ARITY(mem, image.vector),
               args  |-> MR_TYPELAYOUT_SIMPLE_VECTOR_ARGS(image.vector),
               name  |-> MR_TYPELAYOUT_SIMPLE_VECTOR_FUNCTOR_NAME(mem, image.vector),
               stag  |-> MR_TYPELAYOUT_SIMPLE_VECTOR_TAG(mem, image.vector)]
    /\ UNCHANGED << mkVars, trVars, tagbits, static_code_addresses, build, mem, image >>

(***************************************************************************)
(* Complicated vectors: the number of functors sharing the primary tag,    *)
(* then a pointer to the simple vector of each, in secondary tag order.    *)
(* The simple vectors follow; the s-th has arity arities[s] and secondary  *)
(* tag s - 1.                                                              *)
(***************************************************************************)
\* The words of the simple vectors from the s-th on.
RECURSIVE SharerImages(_, _)
SharerImages(arities, s) ==
    IF s > Len(arities) THEN << >>
    ELSE SimpleVectorImage(Repeat(1, arities[s]), StringAddr(s), s - 1)
            \o SharerImages(arities, s + 1)

\* The index in the data area of the s-th simple vector.
RECURSIVE SharerIndex(_, _)
SharerIndex(arities, s) ==
    IF s = 1 THEN 2 + Len(arities)
    ELSE SharerIndex(arities, s - 1) + arities[s - 1] + 3

EmitComplicatedVector(arities) ==
    /\ CanEmit
    /\ LET sharers == [ s \in 1 .. Len(arities) |-> AddrOf(SharerIndex(arities, s)) ]
       IN /\ mem' = << Len(arities) >> \o sharers \o SharerImages(arities, 1)
          /\ image' = [kind    |-> "complicated",
                       vector  |-> AddrOf(1),
                       sharers |-> sharers]
    /\ UNCHANGED << mkVars, trVars, tagbits, static_code_addresses, build, res >>

\* A value's secondary tag s selects the simple vector that describes it.
LookupSharer(s) ==
    /\ image.kind = "complicated"
    /\ s < MR_TYPELAYOUT_COMPLICATED_VECTOR_NUM_SHARERS(mem, image.vector).val
    /\ LET sv == MR_TYPELAYOUT_COMPLICATED_VECTOR_GET_SIMPLE_VECTOR(mem, image.vector, s)
       IN res' = [op     |-> "sharer",
                  stag   |-> s,
                  simple |-> sv,
                  name   |-> MR_TYPELAYOUT_SIMPLE_VECTOR_FUNCTOR_NAME(mem, sv.val).val,
                  tag    |-> MR_TYPELAYOUT_SIMPLE_VECTOR_TAG(mem, sv.val).val]
    /\ UNCHANGED << mkVars, trVars, tagbits, static_code_addresses, build, mem, image >>

(***************************************************************************)
(* No-tag vectors.  The vector is followed by a cell holding a value of    *)
(* the argument's type and a cell holding the same value wrapped in the    *)
(* no-tag type's functor.                                                  *)
(***************************************************************************)
EmitNoTagVector(marker, arg, name, value) ==
    /\ CanEmit
    /\ mem' = << marker, arg, name, value, value >>
    /\ image' = [kind      |-> "no_tag",
                 vector    |-> AddrOf(1),
                 marker    |-> marker,
                 arg       |-> arg,
                 name      |-> name,
                 unwrapped |-> AddrOf(4),
                 wrapped   |-> AddrOf(5)]
    /\ UNCHANGED << mkVars, trVars, tagbits, static_code_addresses, build, res >>

\* The wrapped value is taken apart; the unwrapped one is read.
LookupNoTagVector ==
    /\ image.kind = "no_tag"
    /\ res' = [op        |-> "no_tag",
               isNoTag   |-> MR_TYPELAYOUT_NO_TAG_VECTOR_IS_NO_TAG(mem, image.vector),
               expanded  |-> NoTagExpand(mem, image.vector, image.wrapped),
               unwrapped |-> WordAt(mem, image.unwrapped, 0)]
    /\ UNCHANGED << mkVars, trVars, tagbits, static_code_addresses, build, mem, image >>

(***************************************************************************)
(* A layout entry with the tag shared by equivalences and no-tag types,    *)
(* pointing to a vector of either kind.                                    *)
(***************************************************************************)
EmitSharedTagEntry(marker, second) ==
    /\ CanEmit
    /\ mem' = << marker, second, StringAddr(1) >>
                 \o make_typelayout(tagbits, TYPELAYOUT_EQUIV_TAG, AddrOf(1))
    /\ image' = [kind   |-> "shared_tag",
                 vector |-> AddrOf(1),
                 entry  |-> AddrOf(4),
                 marker |-> marker]
    /\ UNCHANGED << mkVars, trVars, tagbits, static_code_addresses, build, res >>

\* The entry is decoded and the vector it points to is tested both ways.
DecodeSharedTagEntry ==
    /\ image.kind = "shared_tag"
    /\ LET e == Ref(mem, image.entry, 0)
           Vector == LayoutEntryValue(tagbits, mem, e)
       IN res' = [op      |-> "shared_tag",
                  tag     |-> LayoutEntryTag(tagbits, mem, e),
                  vector  |-> Vector,
                  isNoTag |-> MR_TYPELAYOUT_NO_TAG_VECTOR_IS_NO_TAG(mem, Vector),
                  isEquiv |-> MR_TYPELAYOUT_EQUIV_IS_EQUIV(mem, Vector),
                  equivType |-> MR_TYPELAYOUT_EQUIV_TYPE(mem, Vector)]
    /\ UNCHANGED << mkVars, trVars, tagbits, static_code_addresses, build, mem, image >>

(***************************************************************************)
(* mkinit.  A file name is the components of its base name (the text       *)
(* between the dots), each with or without a leading f_, and its           *)
(* extension.  A function name is the sequence of the pieces it is put     *)
(* together from.                                                          *)
(***************************************************************************)
MAXCALLS == 40

PURPOSE_INIT == 0
PURPOSE_TYPE_TABLE == 1
PURPOSE_DEBUGGER == 2
PURPOSE_PROC_STATIC == 3

Purposes == PURPOSE_INIT .. PURPOSE_PROC_STATIC

\* The tables indexed by purpose.
main_func_name ==
    [ p \in Purposes |->
        << "init_modules", "init_modules_type_tables",
           "init_modules_debugger", "write_out_proc_statics" >>[p + 1] ]

module_suffix ==
    [ p \in Purposes |->
        << "init", "init_type_tables", "init_debugger",
           "write_out_proc_statics" >>[p + 1] ]

\* The preprocessor guard around the bunch functions of a purpose; "NULL"
\* is no guard.
bunch_function_guard ==
    [ p \in Purposes |->
        << "if_need_to_init", "NULL", "if_need_to_init",
           "if_need_deep_prof" >>[p + 1] ]

\* The guard around the main init function of a purpose.
main_func_guard ==
    [ p \in Purposes |->
        << "NULL", "NULL", "NULL", "if_need_deep_prof" >>[p + 1] ]

\* The guard around the calls in the main init function of a purpose.
main_func_body_guard ==
    [ p \in Purposes |->
        << "if_need_to_init", "NULL", "if_need_to_init", "NULL" >>[p + 1] ]

\* The files mkinit can be given, and what reading each finds: whether it
\* can be opened and its lines.  A line is an INIT line with the name it
\* gives (in pieces, the last one "init" when the name ends in init), an
\* ENDINIT line, or any other line.
InitLine(name) == [kind |-> "INIT", name |-> name]

EndInitLine == [kind |-> "ENDINIT"]

OtherLine == [kind |-> "other"]

FileSystem ==
    [ a_c     |-> [base |-> << [f_ |-> FALSE, rest |-> "a"] >>, ext |-> "c",
                   special_chars |-> FALSE, opens |-> TRUE,
                   lines |-> << OtherLine,
                                InitLine(<< "mercury__a__", "init" >>),
                                InitLine(<< "mercury__a_extra__", "init" >>),
                                EndInitLine >>],
      f_b_c   |-> [base |-> << [f_ |-> TRUE, rest |-> "b"] >>, ext |-> "c",
                   special_chars |-> FALSE, opens |-> TRUE,
                   lines |-> << InitLine(<< "mercury__f__b__", "init" >>) >>],
      a_b_c   |-> [base |-> << [f_ |-> FALSE, rest |-> "a-b"] >>, ext |-> "c",
                   special_chars |-> TRUE, opens |-> TRUE,
                   lines |-> << >>],
      lib_init  |-> [base |-> << [f_ |-> FALSE, rest |-> "lib"] >>, ext |-> "init",
                     special_chars |-> FALSE, opens |-> TRUE,
                     lines |-> << InitLine(<< "mercury__lib__", "init" >>),
                                  InitLine(<< "sys_init_lib" >>),
                                  OtherLine,
                                  EndInitLine,
                                  InitLine(<< "mercury__late__", "init" >>) >>],
      gone_init |-> [base |-> << [f_ |-> FALSE, rest |-> "gone" ] >>, ext |-> "init",
                     special_chars |-> FALSE, opens |-> FALSE,
                     lines |-> << >>],
      special_init |-> [base |-> << [f_ |-> FALSE, rest |-> "special"] >>,
                        ext |-> "init", special_chars |-> FALSE, opens |-> TRUE,
                        lines |-> << InitLine(<< "sys_init_special" >>) >>],
      x_o     |-> [base |-> << [f_ |-> FALSE, rest |-> "x"] >>, ext |-> "o",
                   special_chars |-> FALSE, opens |-> TRUE,
                   lines |-> << >>] ]

FileNames == DOMAIN FileSystem

\* The values the -c option is tried with.
MaxcallsOptions == { -1, 0, 1, 2 }

\* mkinit starts: the globals have their initializers.
MkinitInit ==
    /\ mkinit_pc = "start"
    /\ maxcalls = MAXCALLS
    /\ c_files_contain_extra_inits = FALSE
    /\ files = << >>
    /\ num_errors = 0
    /\ purpose = PURPOSE_INIT
    /\ filenum = 0
    /\ num_bunches = 0
    /\ num_calls_in_cur_bunch = 0
    /\ stdout = [functions |-> << >>, file |-> "NULL",
                 error_directive |-> FALSE, removed |-> FALSE]
    /\ exit_status = "none"
    /\ TiIdle
    /\ TraceIdle

\* The values of the -o option: none, or a file name.
OutputFileNames == { "NULL", "out_c" }

\* parse_options and usage: the -c option (given with the value c, or not
\* given), the -x option, the -o option and the file arguments; then
\* set_output_file.
parse_options(given, c, x, o, argfiles) ==
    /\ mkinit_pc = "start"
    /\ maxcalls' = IF given THEN c ELSE maxcalls
    /\ c_files_contain_extra_inits' = x
    /\ files' = argfiles
    /\ IF Len(argfiles) <= 0
       THEN mkinit_pc' = "exited" /\ exit_status' = "EXIT_FAILURE"
       ELSE mkinit_pc' = "sub_init" /\ UNCHANGED exit_status
    /\ stdout' = [stdout EXCEPT !.file = o]
    /\ UNCHANGED << tiVars, trVars, num_errors, purpose, filenum, num_bunches,
                    num_calls_in_cur_bunch >>

\* A function written to stdout: a bunch function with the calls in it, or
\* a main init function with the numbers of the bunches it calls.
BunchFunction(p, number) ==
    [kind |-> "bunch", purpose |-> p, number |-> number, calls |-> << >>,
     guard |-> bunch_function_guard[p], body_guard |-> "NULL"]

\* A faulty variant: the loop stops before the last bunch.
MainFunction_StopsBeforeLast(p, bunches) ==
    [kind |-> "main", purpose |-> p, number |-> 0,
     calls |-> SubSeq(bunches, 1, Len(bunches) - 1),
     guard |-> main_func_guard[p], body_guard |-> main_func_body_guard[p]]

MainFunction(p, bunches) ==
    [kind |-> "main", purpose |-> p, number |-> 0, calls |-> bunches,
     guard |-> main_func_guard[p], body_guard |-> main_func_body_guard[p]]

\* The text so far with one call added to the function being written.
AddCall(out, call) ==
    [out EXCEPT !.functions[Len(out.functions)].calls = Append(@, call)]

\* The name called for func_name.
CalledName(func_name, p, special_module) ==
    func_name \o (IF special_module THEN << "_" >> ELSE << >>)
              \o << module_suffix[p] >>

\* The start of output_sub_init_functions: function number 0 is opened.
output_sub_init_functions_begin ==
    /\ mkinit_pc = "sub_init"
    /\ stdout' = [stdout EXCEPT
                    !.functions = Append(@, BunchFunction(purpose, 0))]
    /\ num_bunches' = 0
    /\ num_calls_in_cur_bunch' = 0
    /\ filenum' = 0
    /\ mkinit_pc' = "files"
    /\ UNCHANGED << tiVars, trVars, maxcalls, c_files_contain_extra_inits, files,
                    num_errors, purpose, exit_status >>

\* A faulty variant: the call that finds the bunch full is not written.
output_init_function_DropsAtBoundary(st, func_name, p, special_module) ==
    IF p = PURPOSE_DEBUGGER /\ special_module THEN st
    ELSE IF st.num_calls_in_cur_bunch >= maxcalls
         THEN [st EXCEPT
                 !.out = [@ EXCEPT !.functions =
                             Append(@, BunchFunction(p, st.num_bunches + 1))],
                 !.num_bunches = @ + 1,
                 !.num_calls_in_cur_bunch = 1]
         ELSE [st EXCEPT
                 !.num_calls_in_cur_bunch = @ + 1,
                 !.out = AddCall(@, CalledName(func_name, p, special_module))]

\* A faulty variant: the module skipped in the debugger pass is counted.
output_init_function_SkipCountsCall(st, func_name, p, special_module) ==
    IF p = PURPOSE_DEBUGGER /\ special_module
    THEN [st EXCEPT !.num_calls_in_cur_bunch = @ + 1]
    ELSE LET st1 ==
               IF st.num_calls_in_cur_bunch >= maxcalls
               THEN [st EXCEPT
                       !.out = [@ EXCEPT !.functions =
                                  Append(@, BunchFunction(p, st.num_bunches + 1))],
                       !.num_bunches = @ + 1,
                       !.num_calls_in_cur_bunch = 0]
               ELSE st
         IN [st1 EXCEPT
               !.num_calls_in_cur_bunch = @ + 1,
               !.out = AddCall(@, CalledName(func_name, p, special_module))]

\* A faulty variant: a bunch is closed only once it holds more than
\* maxcalls calls.
output_init_function_OneTooMany(st, func_name, p, special_module) ==
    IF p = PURPOSE_DEBUGGER /\ special_module THEN st
    ELSE LET st1 ==
               IF st.num_calls_in_cur_bunch > maxcalls
               THEN [st EXCEPT
                       !.out = [@ EXCEPT !.functions =
                                  Append(@, BunchFunction(p, st.num_bunches + 1))],
                       !.num_bunches = @ + 1,
                       !.num_calls_in_cur_bunch = 0]
               ELSE st
         IN [st1 EXCEPT
               !.num_calls_in_cur_bunch = @ + 1,
               !.out = AddCall(@, CalledName(func_name, p, special_module))]

\* output_init_function on the counters and the text in st.
output_init_function(st, func_name, p, special_module) ==
    IF p = PURPOSE_DEBUGGER /\ special_module THEN st
    ELSE LET st1 ==
               IF st.num_calls_in_cur_bunch >= maxcalls
               THEN [st EXCEPT
                       !.out = [@ EXCEPT !.functions =
                                  Append(@, BunchFunction(p, st.num_bunches + 1))],
                       !.num_bunches = @ + 1,
                       !.num_calls_in_cur_bunch = 0]
               ELSE st
         IN [st1 EXCEPT
               !.num_calls_in_cur_bunch = @ + 1,
               !.out = AddCall(@, CalledName(func_name, p, special_module))]

\* The function name process_c_file makes of a file's base name.
RECURSIVE MangleComponents(_)
MangleComponents(base) ==
    IF base = << >> THEN << >>
    ELSE << "__" >> \o (IF Head(base).f_ THEN << "f__" >> ELSE << >>)
           \o << Head(base).rest >> \o MangleComponents(Tail(base))

process_c_file_func_name(file) ==
    << "mercury" >> \o MangleComponents(file.base) \o << "__" >>

\* The loop of process_init_file from line i on.
RECURSIVE process_init_lines(_, _, _, _)
process_init_lines(st, lines, i, p) ==
    IF i > Len(lines) THEN st
    ELSE IF lines[i].kind = "INIT"
    THEN LET name == lines[i].name
             ends_in_init == name[Len(name)] = "init"
             func_name == IF ends_in_init THEN SubSeq(name, 1, Len(name) - 1)
                                          ELSE name
             special == ~ends_in_init
         IN process_init_lines(output_init_function(st, func_name, p, special),
                               lines, i + 1, p)
    ELSE IF lines[i].kind = "ENDINIT" THEN st
    ELSE process_init_lines(st, lines, i + 1, p)

process_init_file(st, file, p) ==
    IF ~file.opens
    THEN [st EXCEPT !.num_errors = @ + 1]
    ELSE process_init_lines(st, file.lines, 1, p)

\* process_c_file; it exits when the name has a special character.
process_c_file(st, file, p) ==
    IF file.special_chars
    THEN [st EXCEPT !.exited = TRUE]
    ELSE output_init_function(st, process_c_file_func_name(file), p, FALSE)

\* A faulty variant: a name with another suffix is passed over in silence.
process_file_IgnoresOtherSuffix(st, file, p) ==
    IF file.ext = "c"
    THEN IF c_files_contain_extra_inits
         THEN process_init_file(st, file, p)
         ELSE process_c_file(st, file, p)
    ELSE IF file.ext = "init"
    THEN process_init_file(st, file, p)
    ELSE st

\* process_file on the counters, the error count and the text in st.
process_file(st, file, p) ==
    IF file.ext = "c"
    THEN IF c_files_contain_extra_inits
         THEN process_init_file(st, file, p)
         ELSE process_c_file(st, file, p)
    ELSE IF file.ext = "init"
    THEN process_init_file(st, file, p)
    ELSE [st EXCEPT !.num_errors = @ + 1]

\* One round of the loop of output_sub_init_functions.
output_sub_init_functions_file ==
    /\ mkinit_pc = "files"
    /\ filenum < Len(files)
    /\ LET st == process_file([num_bunches |-> num_bunches,
                               num_calls_in_cur_bunch |-> num_calls_in_cur_bunch,
                               num_errors |-> num_errors,
                               out |-> stdout,
                               exited |-> FALSE],
                              FileSystem[files[filenum + 1]], purpose)
       IN /\ num_bunches' = st.num_bunches
          /\ num_calls_in_cur_bunch' = st.num_calls_in_cur_bunch
          /\ num_errors' = st.num_errors
          /\ stdout' = st.out
          /\ IF st.exited
             THEN /\ mkinit_pc' = "exited"
                  /\ exit_status' = "EXIT_FAILURE"
                  /\ UNCHANGED filenum
             ELSE /\ filenum' = filenum + 1
                  /\ UNCHANGED << mkinit_pc, exit_status >>
    /\ UNCHANGED << tiVars, trVars, maxcalls, c_files_contain_extra_inits, files,
                    purpose >>

\* The end of output_sub_init_functions, and output_main_init_function on
\* the number of bunches it returns; main goes on to the next purpose.
output_main_init_function ==
    /\ mkinit_pc = "files"
    /\ filenum >= Len(files)
    /\ stdout' = [stdout EXCEPT
                    !.functions =
                       Append(@, MainFunction(purpose,
                                    [ i \in 1 .. num_bunches + 1 |-> i - 1 ]))]
    /\ IF purpose = PURPOSE_PROC_STATIC
       THEN mkinit_pc' = "output_main" /\ UNCHANGED purpose
       ELSE mkinit_pc' = "sub_init" /\ purpose' = purpose + 1
    /\ UNCHANGED << tiVars, trVars, maxcalls, c_files_contain_extra_inits, files,
                    num_errors, filenum, num_bunches, num_calls_in_cur_bunch,
                    exit_status >>

\* The end of main.
main_return ==
    /\ mkinit_pc = "output_main"
    /\ mkinit_pc' = "exited"
    /\ IF num_errors > 0
       THEN /\ stdout' = [stdout EXCEPT
                             !.error_directive = TRUE,
                             !.removed = stdout.file # "NULL"]
            /\ exit_status' = "EXIT_FAILURE"
       ELSE /\ UNCHANGED stdout
            /\ exit_status' = "EXIT_SUCCESS"
    /\ UNCHANGED << tiVars, trVars, maxcalls, c_files_contain_extra_inits, files,
                    num_errors, purpose, filenum, num_bunches,
                    num_calls_in_cur_bunch >>

MkinitNext ==
    \/ \E given, x \in BOOLEAN, c \in MaxcallsOptions, n \in 0 .. MaxFiles :
         \E argfiles \in SeqsOf(FileNames, n) :
            \E o \in OutputFileNames : parse_options(given, c, x, o, argfiles)
    \/ output_sub_init_functions_begin
    \/ output_sub_init_functions_file
    \/ output_main_init_function
    \/ main_return

(***************************************************************************)
(* The trace utilities, runtime/mercury_trace_util.h. The header declares  *)
(* them and their bodies are in the runtime's C file; what they do is      *)
(* taken from the header's signatures and the description of the tracer.   *)
(***************************************************************************)

\* The number of abstract machine registers a program point may use.
MaxRegs == 2

\* The largest number of live variables at a program point.
MaxLiveVars == 2

\* Word MR_saved_regs[MAX_FAKE_REG]: one more slot than the registers used.
MAX_FAKE_REG == MaxRegs + 1

\* The location of a live value: a register, a det stack slot, a nondet
\* stack slot, or a location the tracer cannot read.
Lval(kind, num) == [kind |-> kind, num |-> num]

\* A MR_Stack_Layout_Var: a name, a location and a pseudo type_info.
StackLayoutVar(name, locn, type) ==
    [name |-> name, locn |-> locn, type |-> type]

\* The live variables a program point may have: one in a register with a
\* ground type, one on the det stack whose type is the first type
\* parameter, one on the nondet stack, and one the tracer cannot read.
StackLayoutVars ==
    { StackLayoutVar("X", Lval("r", 1), DataAddr(10)),
      StackLayoutVar("Y", Lval("stackvar", 1), 1),
      StackLayoutVar("Z", Lval("framevar", 2), DataAddr(11)),
      StackLayoutVar("U", Lval("unknown", 0), DataAddr(10)) }

\* The names a user may ask for; no live variable is called W.
VarNames == { "X", "Y", "Z", "U", "W" }

\* Where the type_infos of the procedure's type parameters are: in the
\* second register, or nowhere the tracer can read.
TypeParamLocations ==
    { << Lval("r", 2) >>, << Lval("unknown", 0) >>, << >> }

\* The values the registers may hold at an event.
RegValues == { 10, DataAddr(12) }

\* The stacks at an event.
StacksAtEvent ==
    [det |-> << 31, 32 >>, nondet |-> << 41, 42 >>, sp |-> 2, curfr |-> 2]

saved_reg(saved, n) == IF n \in DOMAIN saved THEN saved[n] ELSE 0

based_stackvar(stk, base_sp, n) ==
    IF base_sp + 1 - n \in DOMAIN stk.det THEN stk.det[base_sp + 1 - n] ELSE 0

based_framevar(stk, base_curfr, n) ==
    IF base_curfr + 1 - n \in DOMAIN stk.nondet
    THEN stk.nondet[base_curfr + 1 - n] ELSE 0

MR_copy_regs_to_saved_regs_ShiftsByOne(regs, saved, max_mr_num) ==
    [ i \in DOMAIN saved |->
        IF i <= max_mr_num /\ i + 1 \in DOMAIN regs THEN regs[i + 1]
        ELSE saved[i] ]

\* void MR_copy_regs_to_saved_regs(int max_mr_num)
MR_copy_regs_to_saved_regs(regs, saved, max_mr_num) ==
    [ i \in DOMAIN saved |->
        IF i <= max_mr_num /\ i \in DOMAIN regs THEN regs[i] ELSE saved[i] ]

\* void MR_copy_saved_regs_to_regs(int max_mr_num)
MR_copy_saved_regs_to_regs(regs, saved, max_mr_num) ==
    [ i \in DOMAIN regs |->
        IF i <= max_mr_num /\ i \in DOMAIN saved THEN saved[i] ELSE regs[i] ]

\* Word MR_trace_lookup_live_lval_base(locn, saved_regs_valid, base_sp,
\* base_curfr, bool *succeeded): the value at a location, read from the
\* saved registers or from a stack; nothing is written.
MR_trace_lookup_live_lval_base(saved, stk, locn, saved_regs_valid, base_sp, base_curfr) ==
    CASE locn.kind = "r" ->
            IF saved_regs_valid
            THEN [succeeded |-> TRUE, value |-> saved_reg(saved, locn.num)]
            ELSE [succeeded |-> FALSE, value |-> 0]
      [] locn.kind = "stackvar" ->
            [succeeded |-> TRUE,
             value |-> based_stackvar(stk, base_sp, locn.num)]
      [] locn.kind = "framevar" ->
            [succeeded |-> TRUE,
             value |-> based_framevar(stk, base_curfr, locn.num)]
      [] OTHER -> [succeeded |-> FALSE, value |-> 0]

\* Word *MR_trace_materialize_typeinfos_base(vars, saved_regs_valid,
\* base_sp, base_curfr): the type_info of each type parameter, or 0 for a
\* parameter whose type_info cannot be read.
MR_trace_materialize_typeinfos_base(saved, stk, tvars, saved_regs_valid, base_sp, base_curfr) ==
    [ k \in DOMAIN tvars |->
        LET l == MR_trace_lookup_live_lval_base(saved, stk, tvars[k],
                     saved_regs_valid, base_sp, base_curfr)
        IN IF l.succeeded THEN l.value ELSE 0 ]

\* bool MR_trace_get_type_base(var, saved_regs_valid, base_sp, base_curfr,
\* type_params, Word *type_info): a ground type is the variable's own; a
\* type variable is looked up in type_params, and the call fails when the
\* parameter is not there.
MR_trace_get_type_base(var, type_params) ==
    IF TYPEINFO_IS_VARIABLE(var.type)
    THEN IF var.type \in DOMAIN type_params /\ type_params[var.type] # 0
         THEN [ok |-> TRUE, type_info |-> type_params[var.type]]
         ELSE [ok |-> FALSE, type_info |-> 0]
    ELSE [ok |-> TRUE, type_info |-> var.type]

\* bool MR_trace_get_type_and_value_base(var, saved_regs_valid, base_sp,
\* base_curfr, type_params, Word *type_info, Word *value): the outputs are
\* written only on success.
MR_trace_get_type_and_value_base(saved, stk, var, saved_regs_valid, base_sp, base_curfr, type_params) ==
    LET t == MR_trace_get_type_base(var, type_params)
        l == MR_trace_lookup_live_lval_base(saved, stk, var.locn,
                 saved_regs_valid, base_sp, base_curfr)
    IN IF t.ok /\ l.succeeded
       THEN [ok |-> TRUE, type_info |-> t.type_info, value |-> l.value]
       ELSE [ok |-> FALSE, type_info |-> 0, value |-> 0]

\* bool MR_trace_get_type_and_value_filtered(var, name, Word *type_info,
\* Word *value): the call has no type_params argument, so a type variable
\* cannot be resolved.
MR_trace_get_type_and_value_filtered(saved, stk, var, name) ==
    MR_trace_get_type_and_value_base(saved, stk, var, TRUE,
        stk.sp, stk.curfr, << >>)

\* bool MR_trace_get_type_filtered(var, name, Word *type_info)
MR_trace_get_type_filtered(var, name) ==
    MR_trace_get_type_base(var, << >>)

FilteredLookup_FirstVariable(saved, stk, live, name) ==
    IF live = << >>
    THEN [found |-> FALSE, type_ok |-> FALSE, type_info |-> 0, value |-> 0]
    ELSE LET r == MR_trace_get_type_and_value_filtered(saved, stk,
                      live[1], name)
         IN [found |-> TRUE, type_ok |-> r.ok, type_info |-> r.type_info,
             value |-> r.value]

\* The lookup of one named variable: the live variables are scanned for
\* the name; an absent name is reported as not found, a name that is
\* there is handed to MR_trace_get_type_and_value_filtered, whose result
\* says whether its type and value could be had.
FilteredLookup(saved, stk, live, name) ==
    LET hits == { i \in DOMAIN live : live[i].name = name }
    IN IF hits = { }
       THEN [found |-> FALSE, type_ok |-> FALSE, type_info |-> 0,
             value |-> 0]
       ELSE LET i == CHOOSE i \in hits : \A j \in hits : i <= j
                r == MR_trace_get_type_and_value_filtered(saved, stk,
                         live[i], name)
            IN [found |-> TRUE, type_ok |-> r.ok, type_info |-> r.type_info,
                value |-> r.value]

\* The program being traced starts.
TraceInit ==
    /\ TiIdle
    /\ MkinitIdle
    /\ trace_pc = "running"
    /\ MR_fake_reg \in [ 1 .. MaxRegs -> RegValues ]
    /\ stacks = StacksAtEvent
    /\ MR_saved_regs = [ i \in 1 .. MAX_FAKE_REG |-> 0 ]
    /\ event = [kind |-> "none"]
    /\ trace_res = [op |-> "none"]

\* A trace event suspends the program.
TraceEvent(live, tvars, max_mr_num) ==
    /\ trace_pc = "running"
    /\ trace_pc' = "suspended"
    /\ event' = [kind |-> "event", live |-> live, tvars |-> tvars,
                 max_mr_num |-> max_mr_num, saved |-> FALSE,
                 regs |-> MR_fake_reg, stacks |-> stacks]
    /\ trace_res' = [op |-> "event"]
    /\ UNCHANGED << tiVars, mkVars, MR_fake_reg, stacks, MR_saved_regs >>

CopyRegsToSavedRegs ==
    /\ trace_pc = "suspended"
    /\ ~ event.saved
    /\ MR_saved_regs' = MR_copy_regs_to_saved_regs(MR_fake_reg, MR_saved_regs,
                                                   event.max_mr_num)
    /\ event' = [event EXCEPT !.saved = TRUE]
    /\ trace_res' = [op |-> "copy_regs_to_saved_regs"]
    /\ UNCHANGED << tiVars, mkVars, trace_pc, MR_fake_reg, stacks >>

\* MR_trace_materialize_typeinfos
MaterializeTypeinfos ==
    /\ trace_pc = "suspended"
    /\ trace_res' =
         [op |-> "materialize_typeinfos",
          type_params |->
             MR_trace_materialize_typeinfos_base(MR_saved_regs, stacks,
                 event.tvars, event.saved, stacks.sp, stacks.curfr)]
    /\ UNCHANGED << tiVars, mkVars, trace_pc, MR_fake_reg, stacks,
                    MR_saved_regs, event >>

\* MR_trace_lookup_live_lval
LookupLiveLval(i) ==
    /\ trace_pc = "suspended"
    /\ i \in DOMAIN event.live
    /\ trace_res' =
         [op |-> "lookup_live_lval", locn |-> event.live[i].locn,
          result |->
             MR_trace_lookup_live_lval_base(MR_saved_regs, stacks,
                 event.live[i].locn, event.saved, stacks.sp, stacks.curfr)]
    /\ UNCHANGED << tiVars, mkVars, trace_pc, MR_fake_reg, stacks,
                    MR_saved_regs, event >>

\* MR_trace_get_type_and_value, with the type parameters materialized
\* for the event.
GetTypeAndValue(i) ==
    /\ trace_pc = "suspended"
    /\ i \in DOMAIN event.live
    /\ LET type_params ==
              MR_trace_materialize_typeinfos_base(MR_saved_regs, stacks,
                  event.tvars, event.saved, stacks.sp, stacks.curfr)
       IN trace_res' =
            [op |-> "get_type_and_value", var |-> event.live[i],
             type_params |-> type_params,
             result |->
                MR_trace_get_type_and_value_base(MR_saved_regs, stacks,
                    event.live[i], event.saved, stacks.sp, stacks.curfr,
                    type_params)]
    /\ UNCHANGED << tiVars, mkVars, trace_pc, MR_fake_reg, stacks,
                    MR_saved_regs, event >>

\* The lookup of one named variable.
LookupNamedVariable(name) ==
    /\ trace_pc = "suspended"
    /\ event.saved
    /\ trace_res' =
         [op |-> "filtered", name |-> name,
          result |-> FilteredLookup(MR_saved_regs, stacks, event.live, name)]
    /\ UNCHANGED << tiVars, mkVars, trace_pc, MR_fake_reg, stacks,
                    MR_saved_regs, event >>

CopySavedRegsToRegs ==
    /\ trace_pc = "suspended"
    /\ event.saved
    /\ MR_fake_reg' = MR_copy_saved_regs_to_regs(MR_fake_reg, MR_saved_regs,
                                                 event.max_mr_num)
    /\ event' = [event EXCEPT !.saved = FALSE]
    /\ trace_res' = [op |-> "copy_saved_regs_to_regs"]
    /\ UNCHANGED << tiVars, mkVars, trace_pc, stacks, MR_saved_regs >>

\* The program goes on from the event.
TraceResume ==
    /\ trace_pc = "suspended"
    /\ ~ event.saved
    /\ trace_pc' = "resumed"
    /\ trace_res' = [op |-> "resume"]
    /\ UNCHANGED << tiVars, mkVars, MR_fake_reg, stacks, MR_saved_regs,
                    event >>

TraceNext ==
    \/ \E n \in 0 .. MaxLiveVars, max_mr_num \in 1 .. MaxRegs :
         \E live \in InjSeqsOf(StackLayoutVars, n),
            tvars \in TypeParamLocations :
            TraceEvent(live, tvars, max_mr_num)
    \/ CopyRegsToSavedRegs
    \/ MaterializeTypeinfos
    \/ \E i \in 1 .. MaxLiveVars : LookupLiveLval(i)
    \/ \E i \in 1 .. MaxLiveVars : GetTypeAndValue(i)
    \/ \E name \in VarNames : LookupNamedVariable(name)
    \/ CopySavedRegsToRegs
    \/ TraceResume

(***************************************************************************)
(* The specification.                                                      *)
(***************************************************************************)
TiNext ==
    \/ Preprocess
    \/ \E isFunc \in BOOLEAN, N \in HotArities : EmitHigherOrderTypeInfo(isFunc, N)
    \/ PackHigherOrder
    \/ DecodeHigherOrder
    \/ \E T \in ClassifiedWords : EmitWord(T)
    \/ ClassifyWord
    \/ \E A1, A2 \in 0 .. MaxInstanceArity, n \in 1 .. MaxMethods :
         \E meths1 \in SeqsOf(CodeAddrs, n) :
            \E meths2 \in { meths1, Repeat(CodeAddr(3), n) } :
               EmitTypeclassInfos(A1, A2, meths1, meths2)
    \/ \E t \in 1 .. 2, K \in 0 .. MaxIndex : LookupSuperclass(t, K)
    \/ \E n \in 0 .. MaxMethods : LookupMethod(n)
    \/ \E count \in 0 .. MaxTypeArity : EmitTypeInfos(count)
    \/ \E T \in 0 .. AddrOf(1 + 2 * BaseTypeInfoWords) : LookupBaseTypeInfo(T)
    \/ \E T \in 0 .. AddrOf(1 + 2 * BaseTypeInfoWords) : DispatchSpecialPreds(T)
    \/ \E macro \in InitMacros, B \in { AddrOf(1), AddrOf(1 + BaseTypeInfoWords) } :
         InitBaseTypeInfo(macro, B, Labels.Unused)
    \/ \E Tag \in LayoutTags, Value \in LayoutValues(tagbits) :
         EmitBuiltinLayout(Tag, Value)
    \/ \E TagA, TagB \in LayoutTags, ValueA, ValueB \in LayoutValues(tagbits),
          split \in 1 .. Pow2(tagbits) :
         EmitUserLayout(TagA, ValueA, TagB, ValueB, split)
    \/ \E p \in 0 .. Pow2(MaxTagBits) - 1 : DecodeLayoutEntry(p)
    \/ \E n \in 1 .. MaxEnumFunctors :
         \E decl \in InjSeqsOf(FunctorNames, n) : EmitEnumVector(decl)
    \/ \E i, j \in 0 .. MaxEnumFunctors - 1 : LookupEnumFunctors(i, j)
    \/ \E n \in 0 .. MaxFunctorArity :
         \E args \in SeqsOf(PseudoTypeInfos, n) :
            \E name \in { StringAddr(1), StringAddr(2) }, stag \in 0 .. 1 :
               EmitSimpleVector(args, name, stag)
    \/ LookupSimpleVector
    \/ \E n \in 1 .. MaxSharers :
         \E arities \in SeqsOf(0 .. 1, n) : EmitComplicatedVector(arities)
    \/ \E s \in 0 .. MaxSharers - 1 : LookupSharer(s)
    \/ \E marker \in NoTagMarkers, arg \in PseudoTypeInfos,
          name \in { StringAddr(1), StringAddr(2) }, value \in WordValues :
         EmitNoTagVector(marker, arg, name, value)
    \/ LookupNoTagVector
    \/ \E marker \in NoTagMarkers, second \in PseudoTypeInfos :
         EmitSharedTagEntry(marker, second)
    \/ DecodeSharedTagEntry

Init == TiInit

Next == TiNext

Spec == Init /\ [][Next]_vars

MkinitSpec == MkinitInit /\ [][MkinitNext]_vars

TraceSpec == TraceInit /\ [][TraceNext]_vars

(***************************************************************************)
(* Properties.                                                             *)
(***************************************************************************)

\* C1: packing a higher-order type of arity N (N among HotArities) gives
\* 2N for a pred and 2N + 1 for a func; MR_TYPECTOR_GET_HOT_ARITY of the
\* packed word gives back N and MR_TYPECTOR_GET_HOT_NAME gives "pred" for
\* the even word and "func" for the odd one.
C1_HotArityRoundTrip ==
    /\ res.op \in { "hot_packed", "hot_decoded" } =>
          /\ res.arity \in HotArities
          /\ res.arity = image.arity
          /\ res.ctor = IF res.isFunc THEN 2 * res.arity + 1 ELSE 2 * res.arity
    /\ res.op = "hot_decoded" =>
          /\ res.hotArity = res.arity
          /\ res.hotName = IF res.isFunc THEN "func" ELSE "pred"
          /\ res.hotName = IF res.ctor % 2 = 0 THEN "pred" ELSE "func"

\* C1 witness: a func of arity 1024 has been packed and decoded.
C1_Witness ==
    /\ res.op = "hot_decoded"
    /\ res.isFunc
    /\ res.arity = TYPELAYOUT_MAX_VARINT
    /\ res.hotName = "func"

\* C2: for a typeclass_info of instance arity A and an index K, the
\* superclass_info and the type_info lookups read the same word of the
\* typeclass_info, the word at offset A + K.
C2_TypeclassOffsetLaw ==
    res.op = "tci_lookup" =>
        /\ res.superclass.addr = res.tci + (res.arity + res.index) * WordBytes
        /\ res.type_info.addr = res.tci + (res.arity + res.index) * WordBytes
        /\ res.superclass = res.type_info
        /\ res.superclass.val = mem[IndexOf(res.tci) + res.arity + res.index]

\* C2 witness: a lookup with a positive instance arity and a positive index.
C2_Witness ==
    /\ res.op = "tci_lookup"
    /\ res.arity > 0
    /\ res.index > 0
    /\ res.superclass.addr = res.tci + (res.arity + res.index) * WordBytes

\* C3: the method lookup does not depend on the instance arity: method n
\* (n >= 1; word 0 of the method table is the arity) of a typeclass_info is
\* the n-th method reference of its table whatever the arity, so two
\* typeclass_infos with the same method references and different arities
\* give the same reference for every method index.
C3_MethodLookupIgnoresArity ==
    (res.op = "class_method" /\ res.index >= 1) =>
        /\ res.method1 = image.methods[1][res.index]
        /\ res.method2 = image.methods[2][res.index]
        /\ (image.methods[1] = image.methods[2] /\ image.arity[1] # image.arity[2])
              => res.method1 = res.method2

\* C3 witness: the same methods, different arities, and a method looked up.
C3_Witness ==
    /\ res.op = "class_method"
    /\ res.index >= 1
    /\ image.methods[1] = image.methods[2]
    /\ image.arity[1] # image.arity[2]
    /\ res.method1 = res.method2

\* C4: MR_TYPEINFO_GET_BASE_TYPEINFO(T) is T itself when the first word of
\* T is zero, and otherwise the descriptor the first word of T points to;
\* either way it is the base_type_info of T's type constructor.
C4_BaseDescriptorResolution ==
    res.op = "base_typeinfo" =>
        /\ res.firstWord = 0 => res.base = res.typeinfo
        /\ res.firstWord # 0 => res.base = res.firstWord
        /\ res.base = image.base[res.typeinfo]

\* C4 witness: the base of a type_info with arguments has been resolved.
C4_Witness ==
    /\ res.op = "base_typeinfo"
    /\ res.firstWord # 0
    /\ res.base # res.typeinfo
    /\ res.base = image.base[res.typeinfo]

\* C5: for every tag-bit count in 0 .. 3 and every primary tag of that
\* configuration, the layout entry built by make_typelayout(Tag, Value) for
\* that primary tag, reached through MR_BASE_TYPEINFO_GET_TYPELAYOUT_ENTRY,
\* decodes back to the same layout tag and the same value.
C5_LayoutRoundTrip ==
    res.op = "layout_decode" =>
        /\ res.tag = image.encoded[res.ptag].Tag
        /\ res.value = image.encoded[res.ptag].Value

\* C5, the part the code keeps: the round trip when an entry is one word
\* (TAGBITS >= 2), and for primary tag 0 when an entry is two words.
C5_RoundTripOneWordEntries ==
    (res.op = "layout_decode" /\ (tagbits >= 2 \/ res.ptag = 0)) =>
        /\ res.tag = image.encoded[res.ptag].Tag
        /\ res.value = image.encoded[res.ptag].Value

\* C5: where the round trip is lost: with two-word entries the accessor
\* indexes the layout by words, so for primary tag p > 0 it does not reach
\* the first word of entry p, which is word 2p.
C5_AccessorMissesTwoWordEntry ==
    (res.op = "layout_decode" /\ tagbits < 2 /\ res.ptag > 0) =>
        res.entry.addr # MR_BASE_TYPEINFO_GET_TYPELAYOUT(mem, image.base)
                            + 2 * res.ptag * WordBytes

\* C6: for each TAGBITS in 0 .. 3, make_typelayout_for_all_tags(Tag, Value)
\* expands to exactly 2^TAGBITS layout entries, one per primary tag value,
\* each of them the entry make_typelayout(Tag, Value); the layout in the
\* data area is these entries one after the other.
C6_ForAllTagsReplicates ==
    (image.kind = "layout" /\ image.forAll) =>
        LET Tag == image.encoded[0].Tag
            Value == image.encoded[0].Value
            layout == MR_BASE_TYPEINFO_GET_TYPELAYOUT(mem, image.base)
            width == Len(make_typelayout(tagbits, Tag, Value))
        IN /\ tagbits \in 0 .. 3
           /\ Len(image.entries) = Pow2(tagbits)
           /\ DOMAIN image.entries = { p + 1 : p \in PrimaryTags(tagbits) }
           /\ \A i \in DOMAIN image.entries :
                 /\ image.entries[i] = make_typelayout(tagbits, Tag, Value)
                 /\ \A k \in 1 .. width :
                       WordAt(mem, layout, (i - 1) * width + k - 1)
                          = make_typelayout(tagbits, Tag, Value)[k]

\* C6 witness: a builtin layout emitted with three tag bits, eight entries.
C6_Witness ==
    /\ image.kind = "layout"
    /\ image.forAll
    /\ tagbits = 3
    /\ Len(image.entries) = 8

\* C7: a tag-bit count outside 0 .. 3 is rejected when the header is
\* preprocessed: make_typelayout_for_all_tags stays undefined and the
\* #error is raised, so no table is ever built; each count in 0 .. 3 takes
\* exactly one branch, its own, and raises no error.
C7_UnsupportedTagBitsRejected ==
    build.status # "configured" =>
        /\ tagbits \notin 0 .. 3 =>
              /\ ~build.defined
              /\ build.taken = {}
              /\ build.status = "error"
              /\ image.kind = "none"
        /\ tagbits \in 0 .. 3 =>
              /\ build.defined
              /\ build.taken = { tagbits + 1 }
              /\ Cardinality(build.taken) = 1
              /\ build.status = "ok"

\* C7 witness: the header has been preprocessed with four tag bits.
C7_Witness ==
    /\ tagbits = 4
    /\ build.status = "error"
    /\ ~build.defined

\* C8: for an enum vector holding the constructor names in declaration
\* order, the name decoded for index i is the i-th declared name, it lives
\* in word TYPELAYOUT_ENUM_FUNCTOR_OFFSET + i of the vector, distinct
\* indices read distinct words, and the order of two indices is the order
\* of the two names in the declaration (whatever the names' own order).
C8_EnumDecodeIsDeclarationOrder ==
    res.op = "enum_names" =>
        LET V == image.vector
            n == MR_TYPELAYOUT_ENUM_VECTOR_NUM_FUNCTORS(mem, V)
        IN /\ n = Len(image.decl)
           /\ res.i < n /\ res.j < n
           /\ res.namei.val = image.decl[res.i + 1]
           /\ res.namej.val = image.decl[res.j + 1]
           /\ res.namei.addr = V + (TYPELAYOUT_ENUM_FUNCTOR_OFFSET + res.i) * WordBytes
           /\ res.i # res.j => res.namei.addr # res.namej.addr
           /\ res.i # res.j => res.namei.val # res.namej.val
           /\ (res.i < res.j) <=>
                 (PosIn(image.decl, res.namei.val) < PosIn(image.decl, res.namej.val))

\* C8 witness: two names declared against their alphabetical order have
\* been decoded: the smaller index holds the alphabetically later name.
C8_Witness ==
    /\ res.op = "enum_names"
    /\ res.i < res.j
    /\ res.namei.val > res.namej.val
    /\ PosIn(image.decl, res.namei.val) < PosIn(image.decl, res.namej.val)

\* C9: in a simple vector of arity a the arity is word 0, the arguments are
\* words 1 .. a, the functor's name is word a + 1 and its secondary tag is
\* word a + 2; the name and tag words are neither the arity word nor an
\* argument word.
C9_SimpleVectorLayout ==
    res.op = "simple_vector" =>
        LET V == image.vector
            a == Len(image.args)
            argAddrs == { res.args + (k - 1) * WordBytes : k \in 1 .. a }
        IN /\ res.arity.addr = V + TYPELAYOUT_SIMPLE_ARITY_OFFSET * WordBytes
           /\ res.arity.addr = V
           /\ res.arity.val = a
           /\ res.args = V + TYPELAYOUT_SIMPLE_ARGS_OFFSET * WordBytes
           /\ \A k \in 1 .. a : WordAt(mem, res.args, k - 1) = image.args[k]
           /\ res.name.addr = V + (a + TYPELAYOUT_SIMPLE_FUNCTOR_OFFSET) * WordBytes
           /\ res.name.addr = V + (a + 1) * WordBytes
           /\ res.name.val = image.name
           /\ res.stag.addr = V + (a + 2) * WordBytes
           /\ res.stag.val = image.stag
           /\ res.name.addr \notin argAddrs \cup { res.arity.addr }
           /\ res.stag.addr \notin argAddrs \cup { res.arity.addr }
           /\ res.name.addr # res.stag.addr

\* C9 witness: a vector with two arguments has been read.
C9_Witness ==
    /\ res.op = "simple_vector"
    /\ res.arity.val = 2
    /\ res.name.addr = image.vector + 3 * WordBytes
    /\ res.name.val = image.name

\* C10: in a complicated vector of num_sharers functors, a secondary tag s
\* below num_sharers selects the s-th simple vector, the one whose own
\* secondary tag is s; distinct secondary tags read distinct words, and no
\* secondary tag reads the num_sharers word.
C10_ComplicatedTagDecode ==
    res.op = "sharer" =>
        LET V == image.vector
            n == MR_TYPELAYOUT_COMPLICATED_VECTOR_NUM_SHARERS(mem, V)
        IN /\ n.val = Len(image.sharers)
           /\ res.stag < n.val
           /\ res.simple.val = image.sharers[res.stag + 1]
           /\ res.simple.addr = V + (1 + res.stag) * WordBytes
           /\ res.simple.addr # n.addr
           /\ res.tag = res.stag
           /\ res.name = StringAddr(res.stag + 1)
           /\ \A s \in 0 .. n.val - 1 :
                 s # res.stag =>
                    /\ MR_TYPELAYOUT_COMPLICATED_VECTOR_GET_SIMPLE_VECTOR(mem, V, s).addr
                          # res.simple.addr
                    /\ MR_TYPELAYOUT_COMPLICATED_VECTOR_GET_SIMPLE_VECTOR(mem, V, s).val
                          # res.simple.val

\* C10 witness: the last of three sharers has been selected.
C10_Witness ==
    /\ res.op = "sharer"
    /\ Len(image.sharers) = 3
    /\ res.stag = 2
    /\ res.simple.val = image.sharers[3]
    /\ res.tag = 2

\* C11: for a no-tag vector, whatever its words are, the arity reported is
\* 1, the argument types are found at the vector's arg field (word 1) and
\* the single argument's type is the word there, the name is word 2, and
\* the argument of a wrapped value is the same word as the unwrapped value.
C11_NoTagWrapper ==
    res.op = "no_tag" =>
        LET V == image.vector
            x == res.expanded
        IN /\ x.arity = 1
           /\ MR_TYPELAYOUT_NO_TAG_VECTOR_ARITY(mem, V) = 1
           /\ x.argTypes = V + 1 * WordBytes
           /\ x.argType = image.arg
           /\ x.argType = mem[IndexOf(V) + 1]
           /\ x.functor = image.name
           /\ res.isNoTag = image.marker
           /\ x.argument = res.unwrapped
           /\ x.argument = mem[IndexOf(image.wrapped)]

\* C11 witness: a vector whose first word is not 1 and whose argument is a
\* type_info has been used to take a wrapped 42 apart.
C11_Witness ==
    /\ res.op = "no_tag"
    /\ image.marker = 2
    /\ image.arg = DataAddr(1)
    /\ res.expanded.arity = 1
    /\ res.expanded.argument = 42
    /\ res.unwrapped = 42

\* C12: the fields of a base_type_info are at the fixed words 0 to 7, in
\* the order count, unify, index, compare, layout, functors, module name,
\* type name, no two at the same word; the unify, index and compare words
\* looked up through a base_type_info are words 1, 2 and 3 of it, none of
\* them the word of the arity, of a table pointer or of a name, and each
\* of the other accessors reads the word of its own field.
C12_BaseOffsetsDistinct ==
    LET offsets == << OFFSET_FOR_COUNT, OFFSET_FOR_UNIFY_PRED,
                      OFFSET_FOR_INDEX_PRED, OFFSET_FOR_COMPARE_PRED,
                      OFFSET_FOR_BASE_TYPE_LAYOUT, OFFSET_FOR_BASE_TYPE_FUNCTORS,
                      OFFSET_FOR_TYPE_MODULE_NAME, OFFSET_FOR_TYPE_NAME >>
    IN /\ \A i \in 1 .. 8 : offsets[i] = i - 1
       /\ \A i, j \in 1 .. 8 : i # j => offsets[i] # offsets[j]
       /\ res.op = "dispatch" =>
             LET B == res.base
                 others == { B + k * WordBytes : k \in { 0, 4, 5, 6, 7 } }
             IN /\ B = image.base[res.typeinfo]
                /\ res.unify.addr = B + 1 * WordBytes
                /\ res.index.addr = B + 2 * WordBytes
                /\ res.compare.addr = B + 3 * WordBytes
                /\ { res.unify.addr, res.index.addr, res.compare.addr }
                      \cap others = {}
                /\ Cardinality({ res.unify.addr, res.index.addr,
                                 res.compare.addr }) = 3
                /\ static_code_addresses =>
                      /\ res.unify.val = ENTRY(Labels.Unify)
                      /\ res.index.val = ENTRY(Labels.Index)
                      /\ res.compare.val = ENTRY(Labels.Compare)
                /\ { res.unify.val, res.index.val, res.compare.val }
                      \cap { res.layout, res.functors, res.module_name,
                             res.type_name } = {}
                /\ res.arity = mem[IndexOf(B)]
                /\ res.arity = IF B = AddrOf(1) THEN 0 ELSE image.count
                /\ res.layout = mem[IndexOf(B) + 4]
                /\ res.functors = mem[IndexOf(B) + 5]
                /\ res.module_name = mem[IndexOf(B) + 6]
                /\ res.type_name = mem[IndexOf(B) + 7]

\* C12 witness: the special predicates of a type of arity 2 have been
\* looked up through a type_info with arguments.
C12_Witness ==
    /\ res.op = "dispatch"
    /\ res.base # res.typeinfo
    /\ res.arity = 2
    /\ static_code_addresses
    /\ res.compare.val = ENTRY(Labels.Compare)

\* C13: once the tables are emitted no step changes any word of the data
\* area, whether or not code addresses are static.
C13_TablesImmutable ==
    [][image.kind # "none" => mem' = mem]_vars

\* C13 as amended: once the tables are emitted, the only steps that change
\* a word of the data area are the base_type_info initialization macros in
\* a build without static code addresses, and they change only the unify,
\* index and compare words (words 1 to 3) of the base_type_info they are
\* given, each to a code address; with static code addresses they change
\* nothing, and no lookup ever changes a word.
C13_OnlyInitFillsCodeAddresses ==
    [][image.kind # "none" =>
          /\ DOMAIN mem' = DOMAIN mem
          /\ static_code_addresses => mem' = mem
          /\ res'.op # "init" => mem' = mem
          /\ \A i \in DOMAIN mem :
                mem'[i] # mem[i] =>
                   /\ ~static_code_addresses
                   /\ res'.op = "init"
                   /\ i - IndexOf(res'.base) \in
                         { OFFSET_FOR_UNIFY_PRED, OFFSET_FOR_INDEX_PRED,
                           OFFSET_FOR_COMPARE_PRED }
                   /\ mem[i] \in { 0 } \cup { ENTRY(l) : l \in 1 .. 4 }
                   /\ mem'[i] \in { ENTRY(l) : l \in 1 .. 4 }
    ]_vars

\* C13 witness: without static code addresses, an initialization macro has
\* filled in the three code addresses of a base_type_info of arity 2,
\* whose other words are as they were emitted.
C13_Witness ==
    /\ res.op = "init"
    /\ ~static_code_addresses
    /\ res.macro = "MR_INIT_BASE_TYPE_INFO"
    /\ res.base = AddrOf(1 + BaseTypeInfoWords)
    /\ WordAt(mem, res.base, OFFSET_FOR_COUNT) = 2
    /\ WordAt(mem, res.base, OFFSET_FOR_UNIFY_PRED) = ENTRY(Labels.Unify)
    /\ WordAt(mem, res.base, OFFSET_FOR_INDEX_PRED) = ENTRY(Labels.Index)
    /\ WordAt(mem, res.base, OFFSET_FOR_COMPARE_PRED) = ENTRY(Labels.Compare)
    /\ WordAt(mem, res.base, OFFSET_FOR_BASE_TYPE_LAYOUT) = DataAddr(4)

\* The calls written in the bunch functions of purpose p, in the order
\* they are written in.
RECURSIVE CallsFrom(_, _, _)
CallsFrom(functions, i, p) ==
    IF i > Len(functions) THEN << >>
    ELSE (IF functions[i].kind = "bunch" /\ functions[i].purpose = p
          THEN functions[i].calls ELSE << >>)
            \o CallsFrom(functions, i + 1, p)

CallsOf(p) == CallsFrom(stdout.functions, 1, p)

\* The pass of purpose p is over: its main init function is written.
PassDone(p) ==
    \E i \in DOMAIN stdout.functions :
        stdout.functions[i].kind = "main" /\ stdout.functions[i].purpose = p

\* The entry point an INIT line names for purpose p.
EntryPointOfLine(line, p) ==
    IF line.name[Len(line.name)] = "init"
    THEN SubSeq(line.name, 1, Len(line.name) - 1) \o << module_suffix[p] >>
    ELSE line.name \o << "_", module_suffix[p] >>

\* The entry point a .c file names for purpose p.
EntryPointOfCFile(file, p) ==
    process_c_file_func_name(file) \o << module_suffix[p] >>

\* The entry points of the INIT lines among lines[i], i in I, in order.
RECURSIVE EntryPointsOfLines(_, _, _, _)
EntryPointsOfLines(lines, i, I, p) ==
    IF i > Len(lines) THEN << >>
    ELSE (IF i \in I /\ lines[i].kind = "INIT"
          THEN << EntryPointOfLine(lines[i], p) >> ELSE << >>)
            \o EntryPointsOfLines(lines, i + 1, I, p)

\* The entry points the files from the k-th on name for purpose p: one per
\* .c file, one per INIT line of a .init file.
RECURSIVE NamedEntryPoints(_, _)
NamedEntryPoints(k, p) ==
    IF k > Len(files) THEN << >>
    ELSE LET file == FileSystem[files[k]]
         IN (IF file.ext = "c" THEN << EntryPointOfCFile(file, p) >>
             ELSE IF file.ext = "init"
             THEN EntryPointsOfLines(file.lines, 1, DOMAIN file.lines, p)
             ELSE << >>)
               \o NamedEntryPoints(k + 1, p)

\* The lines of a file that count for purpose p: those before the first
\* ENDINIT line and, in the debugger pass, not naming a special module.
CountedLines(file, p) ==
    { i \in DOMAIN file.lines :
        /\ \A j \in 1 .. i : file.lines[j].kind # "ENDINIT"
        /\ ~(/\ p = PURPOSE_DEBUGGER
             /\ file.lines[i].kind = "INIT"
             /\ file.lines[i].name[Len(file.lines[i].name)] # "init") }

\* The entry points the files from the k-th on have mkinit call for
\* purpose p.
RECURSIVE ProcessedEntryPoints(_, _)
ProcessedEntryPoints(k, p) ==
    IF k > Len(files) THEN << >>
    ELSE LET file == FileSystem[files[k]]
             read == \/ file.ext = "init"
                     \/ file.ext = "c" /\ c_files_contain_extra_inits
         IN (IF read
             THEN IF file.opens
                  THEN EntryPointsOfLines(file.lines, 1, CountedLines(file, p), p)
                  ELSE << >>
             ELSE IF file.ext = "c" THEN << EntryPointOfCFile(file, p) >>
             ELSE << >>)
               \o ProcessedEntryPoints(k + 1, p)

\* C14: in each purpose pass every entry point the input files name (one
\* per .c file, one per INIT line of a .init file) is called exactly once
\* in the bunch functions, in the order of the files and of the lines.
C14_EveryEntryPointCalledOnce ==
    \A p \in Purposes : PassDone(p) => CallsOf(p) = NamedEntryPoints(1, p)

\* C14 as amended: in each purpose pass that is completed the bunch
\* functions call, once for each time it is named and in the order of the
\* files and of the lines, the entry point of each .c file when -x is not
\* given, and of each INIT line before the first ENDINIT line of each
\* .init file that can be opened (and of each .c file when -x is given);
\* in the debugger pass the INIT lines naming special modules are skipped.
C14_ProcessedEntryPointsCalledInOrder ==
    \A p \in Purposes : PassDone(p) => CallsOf(p) = ProcessedEntryPoints(1, p)

\* C14 witness: with one call per bunch, lib.init and a.c have been gone
\* through in the init and debugger passes: three calls, then two.
C14_Witness ==
    /\ files = << "lib_init", "a_c" >>
    /\ maxcalls = 1
    /\ ~c_files_contain_extra_inits
    /\ PassDone(PURPOSE_DEBUGGER)
    /\ CallsOf(PURPOSE_INIT) =
          << << "mercury__lib__", "init" >>,
             << "sys_init_lib", "_", "init" >>,
             << "mercury", "__", "a", "__", "init" >> >>
    /\ CallsOf(PURPOSE_DEBUGGER) =
          << << "mercury__lib__", "init_debugger" >>,
             << "mercury", "__", "a", "__", "init_debugger" >> >>

\* C15: whatever value the -c option gave maxcalls, every bunch function
\* holds at most maxcalls calls.
C15_BunchesBounded ==
    \A i \in DOMAIN stdout.functions :
        stdout.functions[i].kind = "bunch" =>
            Len(stdout.functions[i].calls) <= maxcalls

\* C15, the part the code keeps: the bound holds when maxcalls is at least
\* 1; when it is below 1 every call opens a bunch of its own.
C15_BoundedWhenPositive ==
    \A i \in DOMAIN stdout.functions :
        stdout.functions[i].kind = "bunch" =>
            /\ maxcalls >= 1 => Len(stdout.functions[i].calls) <= maxcalls
            /\ maxcalls < 1 => Len(stdout.functions[i].calls) <= 1

\* The live variables of the event that have the name asked for.
LiveVarsNamed(name) ==
    { i \in DOMAIN event.live : event.live[i].name = name }

\* C16: a lookup of a name that no live variable has reports not found, with
\* neither a type nor a value; a lookup of a name that a live variable has,
\* where the variable's type is a type parameter that cannot be resolved,
\* reports found with the type not ok; every lookup returns one of the
\* outcomes, and found tells the two apart.
C16_NotFoundContract ==
    trace_res.op = "filtered" =>
        LET r == trace_res.result
            hits == LiveVarsNamed(trace_res.name)
        IN /\ r.found \in BOOLEAN /\ r.type_ok \in BOOLEAN
           /\ hits = { } =>
                 /\ ~ r.found /\ ~ r.type_ok
                 /\ r.type_info = 0 /\ r.value = 0
           /\ (\E i \in hits : TYPEINFO_IS_VARIABLE(event.live[i].type)) =>
                 r.found /\ ~ r.type_ok
           /\ hits # { } => r.found

\* C16 witness: the variable Y, whose type is a type parameter, is live
\* with another variable, and a lookup of Y found it with no type.
C16_Witness ==
    /\ trace_res.op = "filtered"
    /\ trace_res.name = "Y"
    /\ Len(event.live) = 2
    /\ event.live[2].name = "Y"
    /\ trace_res.result.found
    /\ ~ trace_res.result.type_ok

\* C17: during a suspension and when the program goes on, the registers
\* and both stacks hold what they held when the event began, whatever
\* lookups were made and whether or not the registers were copied to
\* MR_saved_regs and back.
C17_ProgramStateUntouched ==
    trace_pc \in { "suspended", "resumed" } =>
        /\ MR_fake_reg = event.regs
        /\ stacks = event.stacks

\* C17 witness: registers that differ from one another were copied to
\* MR_saved_regs, a live variable was looked up there, and they were
\* copied back.
C17_Witness ==
    /\ trace_res.op = "copy_saved_regs_to_regs"
    /\ event.max_mr_num = MaxRegs
    /\ MR_fake_reg[1] # MR_fake_reg[2]
    /\ MR_saved_regs[1] = MR_fake_reg[1]
    /\ MR_saved_regs[2] = MR_fake_reg[2]

\* C18: applying MR_TYPEINFO_GET_BASE_TYPEINFO to its own result gives that
\* result again, for a type_info of any arity.
C18_BaseOfBaseIsBase ==
    res.op = "base_typeinfo" => res.baseOfBase = res.base

\* C18, amended: applying MR_TYPEINFO_GET_BASE_TYPEINFO to the base of a
\* type_info gives the base again when the base's arity is zero, and gives
\* the arity held in the base's first word, which is not the base, when the
\* arity is not zero.
C18_BaseOfBaseFollowsArity ==
    res.op = "base_typeinfo" =>
        LET Base  == image.base[res.typeinfo]
            Arity == MR_BASE_TYPEINFO_GET_TYPE_ARITY(mem, Base)
        IN /\ Arity = 0 => res.baseOfBase = Base
           /\ Arity # 0 => res.baseOfBase = Arity /\ res.baseOfBase # Base

\* C18 witness: the base of a type_info of arity two was looked up, and the
\* macro applied to that base gave two.
C18_Witness ==
    /\ res.op = "base_typeinfo"
    /\ image.count = 2
    /\ res.typeinfo # res.base
    /\ res.base = image.base[res.typeinfo]
    /\ res.baseOfBase = 2

\* C19: for every arity N up to TYPELAYOUT_MAX_VARINT, the packed value
\* of a pred and of a func of arity N is recognised by
\* MR_TYPECTOR_IS_HIGHER_ORDER.
C19_PackedIsHigherOrder ==
    res.op = "hot_packed" /\ res.arity \in 0 .. TYPELAYOUT_MAX_VARINT =>
        res.isHigherOrder

\* C19, amended: the packed value of a pred of arity N is recognised by
\* MR_TYPECTOR_IS_HIGHER_ORDER exactly when N is at most 512, and that of
\* a func exactly when N is at most 511.
C19_PackedIsHigherOrderUpToHalf ==
    res.op = "hot_packed" /\ res.arity \in 0 .. TYPELAYOUT_MAX_VARINT =>
        (res.isHigherOrder <=>
            IF res.isFunc THEN res.arity <= 511 ELSE res.arity <= 512)

\* C19 witness: a func of arity 512 was packed, and its packed value is
\* not recognised.
C19_Witness ==
    /\ res.op = "hot_packed"
    /\ res.isFunc
    /\ res.arity = 512
    /\ res.ctor = 1025
    /\ ~ res.isHigherOrder

\* C20: on every word the two tests agree, and each holds exactly when the
\* word, an unsigned value, is at most 1024.
C20_VariableAndHigherOrderAgree ==
    res.op = "classified" =>
        /\ res.word = image.word
        /\ res.word \in 0 .. WordModulus - 1
        /\ res.isVariable <=> res.isHigherOrder
        /\ res.isVariable <=> res.word <= 1024
        /\ res.isHigherOrder <=> res.word <= 1024

\* C20 witness: the word 1024 was classified as a type variable and as a
\* higher-order constructor.
C20_Witness ==
    /\ res.op = "classified"
    /\ res.word = 1024
    /\ res.isVariable
    /\ res.isHigherOrder

\* C21: the superclass_info and the type_info lookups, for any instance
\* arity and any index from 0, read a word of the typeclass_info other than
\* word 0, which points to the method table.
C21_LookupsNeverReadWordZero ==
    res.op = "tci_lookup" =>
        /\ res.superclass.addr # res.tci
        /\ res.type_info.addr # res.tci

\* C21, amended: the two lookups read word 0 of the typeclass_info, the
\* pointer to the method table, exactly when the instance arity and the
\* index are both zero; for an index of at least 1 they read a later word.
C21_LookupsReadWordZeroOnlyAtZero ==
    res.op = "tci_lookup" =>
        LET atZero == res.arity = 0 /\ res.index = 0
            base   == mem[IndexOf(res.tci)]
        IN /\ res.superclass.addr = res.tci <=> atZero
           /\ res.type_info.addr = res.tci <=> atZero
           /\ atZero => res.superclass.val = base /\ res.type_info.val = base
           /\ res.index >= 1 =>
                 /\ res.superclass.addr > res.tci
                 /\ res.type_info.addr > res.tci

\* C21 witness: a typeclass_info of instance arity zero was looked up at
\* index zero, and the lookup gave the pointer to the method table.
C21_Witness ==
    /\ res.op = "tci_lookup"
    /\ res.arity = 0
    /\ res.index = 0
    /\ res.superclass.addr = res.tci
    /\ res.superclass.val = mem[IndexOf(res.tci)]

RECURSIVE BunchNumbersFrom(_, _, _)
BunchNumbersFrom(functions, i, p) ==
    IF i > Len(functions) THEN << >>
    ELSE (IF functions[i].kind = "bunch" /\ functions[i].purpose = p
          THEN << functions[i].number >> ELSE << >>)
            \o BunchNumbersFrom(functions, i + 1, p)

\* The positions of the main init functions of purpose p.
MainFunctionsOf(p) ==
    { i \in DOMAIN stdout.functions :
        stdout.functions[i].kind = "main" /\ stdout.functions[i].purpose = p }

\* The preprocessor conditions under which the calls of a function are
\* compiled.
GuardsOfCalls(function) == { function.guard, function.body_guard } \ { "NULL" }

\* C23: for each purpose whose main init function is written, there is one
\* such function; it calls the bunch functions numbered 0, 1, ..., k in
\* that order, each once, and these are the bunch functions written for
\* that purpose, all of them written before it; the calls are compiled
\* under the condition under which the bunch functions are.
C23_MainCallsEveryBunchOnce ==
    \A p \in Purposes :
        \A i \in MainFunctionsOf(p) :
            LET called  == stdout.functions[i].calls
                defined == BunchNumbersFrom(stdout.functions, 1, p)
            IN /\ MainFunctionsOf(p) = { i }
               /\ called = [ j \in 1 .. Len(called) |-> j - 1 ]
               /\ Len(called) >= 1
               /\ called = defined
               /\ defined = BunchNumbersFrom(SubSeq(stdout.functions, 1, i), 1, p)
               /\ \A j \in DOMAIN stdout.functions :
                     (/\ stdout.functions[j].kind = "bunch"
                      /\ stdout.functions[j].purpose = p) =>
                        GuardsOfCalls(stdout.functions[i])
                           = { stdout.functions[j].guard } \ { "NULL" }

\* C23 witness: with one call per bunch, the init pass over lib.init and
\* a.c wrote three bunch functions, and the main init function calls the
\* three.
C23_Witness ==
    /\ files = << "lib_init", "a_c" >>
    /\ maxcalls = 1
    /\ BunchNumbersFrom(stdout.functions, 1, PURPOSE_INIT) = << 0, 1, 2 >>
    /\ \E i \in MainFunctionsOf(PURPOSE_INIT) :
          stdout.functions[i].calls = << 0, 1, 2 >>

\* The numbers of calls in the bunch functions of purpose p among
\* functions[i..], in the order they are written.
RECURSIVE BunchSizesFrom(_, _, _)
BunchSizesFrom(functions, i, p) ==
    IF i > Len(functions) THEN << >>
    ELSE (IF functions[i].kind = "bunch" /\ functions[i].purpose = p
          THEN << Len(functions[i].calls) >> ELSE << >>)
            \o BunchSizesFrom(functions, i + 1, p)

\* n / m rounded up.
CeilDiv(n, m) == (n + m - 1) \div m

\* C24: when maxcalls is m >= 1 and a completed pass made n calls, the
\* pass wrote ceil(n / m) bunch functions, or one if n = 0; each but the
\* last holds m calls, and the last holds from 1 to m calls when n >= 1.
C24_BunchCountAndFill ==
    \A p \in Purposes :
        (PassDone(p) /\ maxcalls >= 1) =>
            LET n     == Len(CallsOf(p))
                sizes == BunchSizesFrom(stdout.functions, 1, p)
                k     == Len(sizes)
            IN /\ k = IF n = 0 THEN 1 ELSE CeilDiv(n, maxcalls)
               /\ \A i \in 1 .. k - 1 : sizes[i] = maxcalls
               /\ n >= 1 => sizes[k] \in 1 .. maxcalls
               /\ n = 0 => sizes = << 0 >>

\* C24 witness: with at most two calls per bunch, the init pass over
\* lib.init and a.c made three calls in two bunch functions, of two calls
\* and of one.
C24_Witness ==
    /\ maxcalls = 2
    /\ PassDone(PURPOSE_INIT)
    /\ Len(CallsOf(PURPOSE_INIT)) = 3
    /\ BunchSizesFrom(stdout.functions, 1, PURPOSE_INIT) = << 2, 1 >>

\* The next file to go through is special.init, whose one INIT line names
\* a special module: going through it is one call of output_init_function
\* with special_module true.
AtSpecialModule ==
    /\ mkinit_pc = "files"
    /\ filenum < Len(files)
    /\ files[filenum + 1] = "special_init"

\* The number of calls written so far, in all functions.
RECURSIVE CallsWritten(_, _)
CallsWritten(functions, i) ==
    IF i > Len(functions) THEN 0
    ELSE (IF functions[i].kind = "bunch" THEN Len(functions[i].calls) ELSE 0)
            + CallsWritten(functions, i + 1)

\* The last call written.
LastCall(functions) == functions[Len(functions)].calls[Len(functions[Len(functions)].calls)]

\* C25: output_init_function for a special module writes nothing and
\* leaves the bunch number and the count of calls in the current bunch as
\* they are in the debugger pass; in every other pass it writes one call,
\* of the module's name with _ and the pass's suffix, and counts it in the
\* current bunch, or in a new bunch when the current one is full.
C25_SpecialModuleSkippedInDebuggerPass ==
    [][ AtSpecialModule =>
          IF purpose = PURPOSE_DEBUGGER
          THEN /\ stdout' = stdout
               /\ num_bunches' = num_bunches
               /\ num_calls_in_cur_bunch' = num_calls_in_cur_bunch
          ELSE /\ CallsWritten(stdout'.functions, 1)
                     = CallsWritten(stdout.functions, 1) + 1
               /\ LastCall(stdout'.functions)
                     = << "sys_init_special", "_", module_suffix[purpose] >>
               /\ IF num_calls_in_cur_bunch >= maxcalls
                  THEN /\ num_bunches' = num_bunches + 1
                       /\ num_calls_in_cur_bunch' = 1
                  ELSE /\ num_bunches' = num_bunches
                       /\ num_calls_in_cur_bunch' = num_calls_in_cur_bunch + 1
      ]_vars

\* C25 witness: a.c and special.init were gone through in the debugger
\* pass; its one bunch holds the call for a.c alone, while the init pass
\* made two calls.
C25_Witness ==
    /\ files = << "a_c", "special_init" >>
    /\ ~c_files_contain_extra_inits
    /\ purpose = PURPOSE_DEBUGGER
    /\ mkinit_pc = "files"
    /\ filenum = 2
    /\ num_bunches = 0
    /\ num_calls_in_cur_bunch = 1
    /\ CallsOf(PURPOSE_DEBUGGER) = << << "mercury", "__", "a", "__", "init_debugger" >> >>
    /\ Len(CallsOf(PURPOSE_INIT)) = 2

\* The positions among the files of those that are in error: a name that
\* ends in neither .c nor .init, or a file read as a .init file that
\* cannot be opened.
ErrorFiles ==
    { k \in DOMAIN files :
        LET file == FileSystem[files[k]]
        IN \/ file.ext \notin { "c", "init" }
           \/ /\ file.ext = "init" \/ c_files_contain_extra_inits
              /\ ~file.opens }

\* The positions of the .c files whose names process_c_file gives up on.
UnsupportedCFiles ==
    { k \in DOMAIN files :
        /\ FileSystem[files[k]].ext = "c"
        /\ FileSystem[files[k]].special_chars
        /\ ~c_files_contain_extra_inits }

\* C26: when mkinit, given files, has exited, the four passes were
\* completed whatever files were in error; it exited with failure, with
\* the #error directive written and the -o file removed, if a file was in
\* error, and with success, with neither, if none was.
C26_ErrorOutcome ==
    (mkinit_pc = "exited" /\ files # << >>) =>
        /\ \A p \in Purposes : PassDone(p)
        /\ num_errors > 0 <=> ErrorFiles # { }
        /\ IF ErrorFiles # { }
           THEN /\ exit_status = "EXIT_FAILURE"
                /\ stdout.error_directive
                /\ stdout.removed <=> stdout.file # "NULL"
           ELSE /\ exit_status = "EXIT_SUCCESS"
                /\ ~stdout.error_directive
                /\ ~stdout.removed

\* C26, amended: when no .c file has a name process_c_file gives up on,
\* the outcome is the one above, each file in error being counted once in
\* each of the four passes; when there is such a .c file, mkinit exits
\* with failure in the first pass, on reaching it, with no main init
\* function and no #error directive written and the -o file not removed,
\* the files in error before it having been counted once.
C26_ErrorOutcomeUnlessGivenUp ==
    (mkinit_pc = "exited" /\ files # << >>) =>
        IF UnsupportedCFiles = { }
        THEN /\ \A p \in Purposes : PassDone(p)
             /\ num_errors = 4 * Cardinality(ErrorFiles)
             /\ IF ErrorFiles # { }
                THEN /\ exit_status = "EXIT_FAILURE"
                     /\ stdout.error_directive
                     /\ stdout.removed <=> stdout.file # "NULL"
                ELSE /\ exit_status = "EXIT_SUCCESS"
                     /\ ~stdout.error_directive
                     /\ ~stdout.removed
        ELSE LET first == CHOOSE k \in UnsupportedCFiles :
                              \A j \in UnsupportedCFiles : k <= j
             IN /\ exit_status = "EXIT_FAILURE"
                /\ purpose = PURPOSE_INIT
                /\ filenum = first - 1
                /\ \A p \in Purposes : ~PassDone(p)
                /\ num_errors = Cardinality({ k \in ErrorFiles : k < first })
                /\ ~stdout.error_directive
                /\ ~stdout.removed

\* C26 witness: a file in error (x.o, or gone.init, which cannot be
\* opened) was given with a.c or lib.init and with -o; the four passes were
\* completed with a call in each, four errors were counted, and mkinit
\* exited with failure, the directive written and the file removed.
C26_Witness ==
    /\ mkinit_pc = "exited"
    /\ Len(files) = MaxFiles
    /\ \E k \in DOMAIN files : files[k] \in { "x_o", "gone_init" }
    /\ \E k \in DOMAIN files : files[k] \in { "a_c", "lib_init" }
    /\ \A p \in Purposes : PassDone(p) /\ Len(CallsOf(p)) >= 1
    /\ num_errors = 4
    /\ stdout.file = "out_c"
    /\ exit_status = "EXIT_FAILURE"
    /\ stdout.error_directive
    /\ stdout.removed

====
